---- MODULE Spec2Model ----
(***************************************************************************)
(* A model of the two agents of the Promptly repository.                   *)
(*                                                                         *)
(* Agent B (calendar): the five controller handlers of                     *)
(* calendarController.ts and the CalendarService gateway they call.        *)
(* Agent A (email): the processInbox and extractTasks handlers and the     *)
(* services they call.                                                     *)
(* The two provider gateways (CalendarService, GmailService) can also be   *)
(* called on their own, one operation at a time.                           *)
(*                                                                         *)
(* An async handler is a small process: its position (bPc, aPc) advances   *)
(* from one await to the next, and the code between two awaits is one      *)
(* atomic step.  A handler's locals live in the invocation, and the        *)
(* service singletons are written only by their constructors, so requests  *)
(* in flight share nothing: one invocation per agent is modelled at a time.*)
(*                                                                         *)
(* Strings the code inspects are modelled by what the code does with them: *)
(* an error message is a sequence of fragments and String.includes is a    *)
(* search of that sequence; an ISO timestamp is <<"iso", ms>> and the      *)
(* empty/absent string is <<>> (falsy in JavaScript).                      *)
(***************************************************************************)
EXTENDS Integers, Sequences, FiniteSets, TLC

VARIABLES
    calendarClient,   \* CalendarService.calendar/oauth2Client are set (credentials configured)
    bPc,              \* position of the Agent B handler invocation
    bReq,             \* the inbound request of Agent B: op, user, X-Agent, body, params
    bI,               \* createEvents: loop index i (1-based)
    createdEvents,    \* createEvents: local createdEvents
    errors,           \* createEvents: local errors
    bCalls,           \* calendarService methods invoked for the request in flight, each with
                      \* the draft's index and whether it returned (or threw)
    bRes,             \* the HTTP response of the request (status 0: none yet)
    bLast,            \* while idle: the drafts, calls and events of the batch that has just completed
    bPrev             \* when the request repeats the batch before it: that batch's calls and events

VARIABLES
    gmailClient,      \* GmailService.gmail/oauth2Client are set (credentials configured)
    aPc,              \* position of the Agent A handler invocation (processInbox)
    aReq,             \* the inbound request of Agent A: body and Authorization header
    aMaxResults,      \* processInbox: local maxResults
    userSessionJwt,   \* processInbox: local userSessionJwt
    messages,         \* processInbox: local messages
    aI,               \* processInbox: position of the for-of loop in messages (1-based)
    curEmail,         \* processInbox: the loop body's email, once fetched
    curSummary,       \* processInbox: the loop body's summary, once made
    items,            \* processInbox: local items
    aErrors,          \* processInbox: local errors
    delegatedToken,   \* processInbox: local delegatedToken
    eventsToCreate,   \* processInbox: local eventsToCreate
    aCalls,           \* the outbound calls made for the request in flight
    aInFlight,        \* how many of those calls have not completed yet
    aBuiltAt,         \* the clock reading at which it built the drafts (0: not yet)
    aDelegation,      \* what requestDelegatedToken did for it: "none" yet, "token", "notoken", "throw"
    aAgentB,          \* what callAgentBCreateEvents did for it: "none" yet, "returned", "throw"
    aRes              \* the HTTP response of the request (status 0: none yet)

VARIABLES
    gCall,            \* the gateway operation called last, and its arguments
    gOut,             \* what that operation did: the value it returned or the error it raised
    gProviderCalls    \* how many calls of the provider's API it made

bVars == <<calendarClient, bPc, bReq, bI, createdEvents, errors, bCalls, bRes, bLast, bPrev>>

aVars == <<gmailClient, aPc, aReq, aMaxResults, userSessionJwt, messages, aI, curEmail,
           curSummary,
           items, aErrors, delegatedToken, eventsToCreate, aCalls, aInFlight, aBuiltAt,
           aDelegation, aAgentB, aRes>>

gVars == <<gCall, gOut, gProviderCalls>>

vars == <<bVars, aVars, gVars>>

-----------------------------------------------------------------------------
(* Bounds *)

\* The longest 'events' list of a create-events body.
MaxDrafts == 2

\* The most messages the mail provider lists for one process-emails request.
MaxMessages == 2

-----------------------------------------------------------------------------
(* Values *)

\* 60 * 60 * 1000: the unit of time of the model is one millisecond.
OneHour == 3600000

Iso(n) == <<"iso", n>>
NoString == <<>>
\* JavaScript truthiness of a string: of a timestamp or id, and of a plain text.
Truthy(s) == s # NoString
TruthyText(s) == s # ""

\* Date.now() / new Date(): a clock reading.
Nows == {100}

ScopeNames == {"calendar.write", "calendar.read", "calendar.*"}

\* req.user as the token validation left it: undefined, or an object with scopes.
Users ==
    {[defined |-> FALSE, scopes |-> {}]}
        \cup {[defined |-> TRUE, scopes |-> s] : s \in SUBSET ScopeNames}

XAgents == {"agent-a-email", "other"}

NoAttendees == [isArray |-> FALSE, items |-> <<>>]

\* Event drafts a body can carry: a complete one and one that leaves every
\* optional value out.
Drafts ==
    { [title |-> "Standup", description |-> "daily", startTime |-> Iso(5), endTime |-> Iso(6),
       attendees |-> [isArray |-> TRUE, items |-> <<"a@x.io", "nobody">>],
       location |-> "room 1", reminders |-> "custom"],
      [title |-> "", description |-> "", startTime |-> NoString, endTime |-> NoString,
       attendees |-> NoAttendees, location |-> "", reminders |-> ""] }

RECURSIVE SeqsUpTo(_, _)
SeqsUpTo(S, n) ==
    IF n = 0 THEN {<<>>}
    ELSE LET shorter == SeqsUpTo(S, n - 1)
         IN  shorter \cup {Append(s, x) : s \in {t \in shorter : Len(t) = n - 1}, x \in S}

EventLists == SeqsUpTo(Drafts, MaxDrafts)

AppError(message, status, code) ==
    [name |-> "AppError", message |-> message, status |-> status, code |-> code]

\* A thrown Error that is not an AppError.
PlainError(message) ==
    [name |-> "Error", message |-> message, status |-> 0, code |-> ""]

\* A response: the HTTP status (0: none sent), and of its JSON body the
\* top-level keys, the keys of its `error` object, whether `success` is true,
\* error.code and data.
NoRes ==
    [status |-> 0, success |-> FALSE, code |-> "", data |-> [none |-> TRUE],
     keys |-> {}, errorKeys |-> {}]

\* res.json(...) of a handler: status 200 unless res.status was called.
SuccessRes(status, data) ==
    [status |-> status, success |-> TRUE, code |-> "", data |-> data,
     keys |-> {"success", "data", "timestamp"}, errorKeys |-> {}]

\* app.get("/api/health"): { status, service, timestamp, version, uptime },
\* and for Agent B also capabilities.
healthResponse(service) ==
    [NoRes EXCEPT !.status = 200,
                  !.keys = {"status", "service", "timestamp", "version", "uptime"}
                               \cup (IF service = "agent-b-calendar"
                                     THEN {"capabilities"} ELSE {})]

\* app.use("*"): status 404 and { error: "Not Found", message, timestamp },
\* where error is a string.
notFoundResponse ==
    [NoRes EXCEPT !.status = 404, !.keys = {"error", "message", "timestamp"}]

\* Agent B's errorHandler (middleware/errorHandler.js of agent-b-calendar).
errorHandlerB(error) ==
    IF error.name = "AppError"
    THEN [status |-> error.status, success |-> FALSE, code |-> error.code,
          data |-> [message |-> error.message],
          keys |-> {"success", "error", "timestamp"},
          errorKeys |-> {"message", "code", "details"}]
    ELSE [status |-> 500, success |-> FALSE, code |-> "INTERNAL_ERROR",
          data |-> [message |-> <<"Internal server error">>],
          keys |-> {"success", "error", "timestamp"},
          errorKeys |-> {"message", "code"}]

-----------------------------------------------------------------------------
(* CalendarService *)

Includes(message, fragment) == \E k \in 1..Len(message) : message[k] = fragment

\* What the provider's events.insert does: it returns data with an id, data
\* without one, rejects with an Error, or rejects with something that is no Error.
ErrorMessages ==
    { <<"invalid_grant">>,
      <<"Request failed: ", "insufficient permissions">>,
      <<"Invalid value", " for start.dateTime">>,
      <<"invalid_grant", "Invalid value">>,
      <<"Not Found">>,
      <<"ECONNRESET">> }

InsertOutcomes ==
    { [t |-> "data", id |-> <<"evt", "1">>, message |-> <<>>],
      [t |-> "data", id |-> NoString, message |-> <<>>],
      [t |-> "nonerror", id |-> NoString, message |-> <<>>] }
        \cup {[t |-> "error", id |-> NoString, message |-> m] : m \in ErrorMessages}

\* The random tail of a mock id: `${Date.now()}_${Math.random()...}`.
MockSuffixes == {"s1", "s2"}

NoEvent == [id |-> NoString]

createMockEvent(eventData, sfx) ==
    [id |-> <<"mock_", sfx>>,
     title |-> eventData.title,
     description |-> eventData.description,
     startTime |-> eventData.startTime,
     endTime |-> eventData.endTime,
     attendees |-> eventData.attendees,
     location |-> eventData.location,
     status |-> "confirmed"]

\* The calendar_v3.Schema$Event createEvent builds from its argument; the
\* provider's insert answers with it, completed by an id.
InsertResource(eventData, id) ==
    [id |-> id, summary |-> eventData.title, description |-> eventData.description,
     location |-> eventData.location, start |-> eventData.startTime,
     end |-> eventData.endTime, attendees |-> eventData.attendees, status |-> ""]

mapToCalendarEvent(googleEvent, now) ==
    [id |-> googleEvent.id,
     title |-> IF TruthyText(googleEvent.summary) THEN googleEvent.summary
               ELSE "Untitled Event",
     description |-> googleEvent.description,
     startTime |-> IF Truthy(googleEvent.start) THEN googleEvent.start ELSE Iso(now),
     endTime |-> IF Truthy(googleEvent.end) THEN googleEvent.end ELSE Iso(now),
     attendees |-> googleEvent.attendees,
     location |-> googleEvent.location,
     status |-> IF TruthyText(googleEvent.status) THEN googleEvent.status ELSE "confirmed"]

Returned(event) == [ok |-> TRUE, event |-> event, error |-> PlainError(<<>>)]
Thrown(error) == [ok |-> FALSE, event |-> NoEvent, error |-> error]

createEventCatchAlwaysMock(eventData, isError, message, sfx) ==
    Returned(createMockEvent(eventData, sfx))

\* The catch block of createEvent: the error the try block raised is
\* re-classified by the fragments of its message, else swallowed into a mock.
createEventCatch(eventData, isError, message, sfx) ==
    IF isError /\ Includes(message, "invalid_grant")
    THEN Thrown(AppError(<<"Calendar authentication expired, please re-authenticate">>,
                         401, "CALENDAR_AUTH_EXPIRED"))
    ELSE IF isError /\ Includes(message, "insufficient permissions")
    THEN Thrown(AppError(<<"Insufficient permissions to create calendar events">>,
                         403, "CALENDAR_PERMISSIONS_ERROR"))
    ELSE IF isError /\ Includes(message, "Invalid value")
    THEN Thrown(AppError(<<"Invalid event data provided">>, 400, "INVALID_EVENT_DATA"))
    ELSE Returned(createMockEvent(eventData, sfx))

\* A createEvent whose missing-id error leaves the method.
createEventRaisesNoId(eventData, client, outcome, sfx, now) ==
    IF ~client
    THEN Returned(createMockEvent(eventData, sfx))
    ELSE IF outcome.t = "data"
    THEN IF ~Truthy(outcome.id)
         THEN Thrown(AppError(<<"Failed to create calendar event - no ID returned">>,
                              500, "CALENDAR_CREATE_FAILED"))
         ELSE Returned(mapToCalendarEvent(InsertResource(eventData, outcome.id), now))
    ELSE createEventCatch(eventData, outcome.t = "error", outcome.message, sfx)

\* CalendarService.createEvent: `client` says whether the calendar client
\* exists, `outcome` is what events.insert does, `sfx` and `now` are the
\* random and clock values read on the way.
createEvent(eventData, client, outcome, sfx, now) ==
    IF ~client
    THEN Returned(createMockEvent(eventData, sfx))
    ELSE IF outcome.t = "data"
    THEN IF ~Truthy(outcome.id)
         THEN createEventCatch(eventData, TRUE,
                  <<"Failed to create calendar event - no ID returned">>, sfx)
         ELSE Returned(mapToCalendarEvent(InsertResource(eventData, outcome.id), now))
    ELSE createEventCatch(eventData, outcome.t = "error", outcome.message, sfx)

-----------------------------------------------------------------------------
(* Agent B: createEvents *)

HasAt(email) == email \in {"a@x.io", "b@y.io"}

\* enhanceEventData: defaults for what the draft leaves out.
enhanceEventData(eventData, now) ==
    [title |-> IF TruthyText(eventData.title) THEN eventData.title ELSE "Untitled Event",
     description |-> IF TruthyText(eventData.description) THEN eventData.description ELSE "",
     startTime |-> IF Truthy(eventData.startTime) THEN eventData.startTime
                   ELSE Iso(now + OneHour),
     endTime |-> IF Truthy(eventData.endTime) THEN eventData.endTime
                 ELSE Iso(now + OneHour + OneHour),
     attendees |-> IF eventData.attendees.isArray
                   THEN SelectSeq(eventData.attendees.items, HasAt)
                   ELSE <<>>,
     location |-> IF TruthyText(eventData.location) THEN eventData.location ELSE "",
     reminders |-> IF TruthyText(eventData.reminders) THEN eventData.reminders ELSE "default"]

\* userInfo?.scopes?.includes(scope)
HasScope(userInfo, scope) == userInfo.defined /\ scope \in userInfo.scopes

\* validateCreateEventsRequest (middleware/validation.middleware.js of
\* agent-b-calendar): a body is accepted when it is { events: [drafts] }, of
\* any length.
validateCreateEventsRequest(body) ==
    [error |-> ~body.wellFormed, events |-> IF body.wellFormed THEN body.events ELSE <<>>]

CreateBodies ==
    {[wellFormed |-> FALSE, events |-> <<>>]}
        \cup {[wellFormed |-> TRUE, events |-> e] : e \in EventLists}

\* The head of createEvents with the scope looked at before the length.
createEventsEntryScopeFirst(bodyValid, events, userInfo) ==
    IF ~bodyValid THEN "invalid"
    ELSE IF ~HasScope(userInfo, "calendar.write") THEN "denied"
    ELSE IF Len(events) = 0 THEN "empty"
    ELSE "loop"

\* The synchronous head of createEvents, up to the loop: which way it leaves.
createEventsEntry(bodyValid, events, userInfo) ==
    IF ~bodyValid THEN "invalid"
    ELSE IF Len(events) = 0 THEN "empty"
    ELSE IF ~HasScope(userInfo, "calendar.write") THEN "denied"
    ELSE "loop"

\* const status = errors.length > 0 && createdEvents.length === 0 ? 207 : 200
\* A status that reports a batch in which every draft failed as a bad request.
createEventsStatusFailsWithBatch(created, errs) ==
    IF Len(errs) > 0 /\ Len(created) = 0 THEN 400 ELSE 200

createEventsStatus(created, errs) ==
    IF Len(errs) > 0 /\ Len(created) = 0 THEN 207 ELSE 200

\* The response with `errors: errors`, an empty list included.
createEventsResponseKeepsErrors(events, created, errs) ==
    SuccessRes(createEventsStatus(created, errs),
               [created |-> created,
                totalRequested |-> Len(events),
                totalCreated |-> Len(created),
                errors |-> [defined |-> TRUE, list |-> errs]])

\* res.json({ success: true, data: { created, totalRequested, totalCreated,
\* errors: errors.length > 0 ? errors : undefined } }) with its status.
createEventsResponse(events, created, errs) ==
    SuccessRes(createEventsStatus(created, errs),
               [created |-> created,
                totalRequested |-> Len(events),
                totalCreated |-> Len(created),
                errors |-> [defined |-> Len(errs) > 0, list |-> IF Len(errs) > 0 THEN errs ELSE <<>>]])


-----------------------------------------------------------------------------
(* CalendarService: list, get, update, delete *)

Min(a, b) == IF a < b THEN a ELSE b

ProviderEvent(id, summary) ==
    [id |-> id, summary |-> summary, description |-> "", location |-> "",
     start |-> Iso(7), end |-> Iso(8), attendees |-> <<>>, status |-> "tentative"]

\* What a provider call other than insert does: `data` is the response's data
\* (an item list for events.list, one event otherwise; NoEvent: no data).
NoData == [t |-> "nodata", items |-> <<>>, message |-> <<>>]
ListOutcomes ==
    { [t |-> "data", items |-> <<>>, message |-> <<>>],
      [t |-> "data", message |-> <<>>,
       items |-> <<ProviderEvent(<<"evt", "1">>, "Review"), ProviderEvent(NoString, "x"),
                   ProviderEvent(<<"evt", "2">>, "")>>],
      [t |-> "nonerror", items |-> <<>>, message |-> <<>>] }
        \cup {[t |-> "error", items |-> <<>>, message |-> m] : m \in ErrorMessages}

EventOutcomes ==
    { [t |-> "data", items |-> <<>>, message |-> <<>>], NoData,
      [t |-> "nonerror", items |-> <<>>, message |-> <<>>] }
        \cup {[t |-> "error", items |-> <<>>, message |-> m] : m \in ErrorMessages}

getMockEvents(maxResults, now) ==
    [k \in 1..(IF Min(maxResults, 5) > 0 THEN Min(maxResults, 5) ELSE 0) |->
        [id |-> <<"mock_event_", k>>,
         title |-> <<"Mock Event ", k>>,
         description |-> "This is a mock calendar event for demonstration purposes.",
         startTime |-> Iso(now + k * 24 * OneHour),
         endTime |-> Iso(now + k * 24 * OneHour + OneHour),
         status |-> "confirmed"]]

getMockEvent(eventId, now) ==
    [id |-> eventId,
     title |-> <<"Mock Event: ", eventId>>,
     description |-> "This is a mock calendar event for demonstration purposes.",
     startTime |-> Iso(now + 24 * OneHour),
     endTime |-> Iso(now + 24 * OneHour + OneHour),
     status |-> "confirmed"]

updateMockEvent(eventId, updateData, now) ==
    LET baseEvent == getMockEvent(eventId, now) IN
    [id |-> baseEvent.id,
     title |-> IF TruthyText(updateData.title) THEN <<updateData.title>> ELSE baseEvent.title,
     description |-> baseEvent.description,
     startTime |-> IF Truthy(updateData.startTime) THEN updateData.startTime
                   ELSE baseEvent.startTime,
     endTime |-> IF Truthy(updateData.endTime) THEN updateData.endTime
                 ELSE baseEvent.endTime,
     status |-> baseEvent.status]

IsValidListed(googleEvent) == Truthy(googleEvent.id) /\ TruthyText(googleEvent.summary)

\* CalendarService.listUpcomingEvents: never raises.
listUpcomingEvents(maxResults, client, outcome, now) ==
    IF ~client THEN Returned(getMockEvents(maxResults, now))
    ELSE IF outcome.t = "data"
    THEN LET kept == SelectSeq(outcome.items, IsValidListed)
         IN  Returned([k \in 1..Len(kept) |-> mapToCalendarEvent(kept[k], now)])
    ELSE Returned(getMockEvents(maxResults, now))

\* CalendarService.getEvent: the event, or null (NoEvent).
getEventService(eventId, client, outcome, now) ==
    IF ~client THEN Returned(getMockEvent(eventId, now))
    ELSE IF outcome.t = "nodata" THEN Returned(NoEvent)
    ELSE IF outcome.t = "data"
    THEN Returned(mapToCalendarEvent(ProviderEvent(eventId, "Review"), now))
    ELSE IF outcome.t = "error" /\ Includes(outcome.message, "Not Found")
    THEN Returned(NoEvent)
    ELSE Returned(getMockEvent(eventId, now))

\* CalendarService.updateEvent: events.get (getOutcome), then events.update
\* (updateOutcome); the event, or null (NoEvent).
updateEventService(eventId, updateData, client, getOutcome, updateOutcome, now) ==
    LET failed(o) ==
            IF o.t = "error" /\ Includes(o.message, "Not Found")
            THEN Returned(NoEvent)
            ELSE Returned(updateMockEvent(eventId, updateData, now))
        existing == ProviderEvent(eventId, "Review")
        updates ==
            [existing EXCEPT
               !.summary = IF TruthyText(updateData.title) THEN updateData.title ELSE @,
               !.start = IF Truthy(updateData.startTime) THEN updateData.startTime ELSE @,
               !.end = IF Truthy(updateData.endTime) THEN updateData.endTime ELSE @]
    IN
    IF ~client THEN Returned(updateMockEvent(eventId, updateData, now))
    ELSE IF getOutcome.t = "nodata" THEN Returned(NoEvent)
    ELSE IF getOutcome.t # "data" THEN failed(getOutcome)
    ELSE IF updateOutcome.t = "nodata" THEN Returned(NoEvent)
    ELSE IF updateOutcome.t # "data" THEN failed(updateOutcome)
    ELSE Returned(mapToCalendarEvent(updates, now))

deleteEventServiceFallsBack(eventId, client, outcome) ==
    [ok |-> TRUE, deleted |-> TRUE, error |-> PlainError(<<>>)]

\* CalendarService.deleteEvent: true, false, or the raised AppError.
deleteEventService(eventId, client, outcome) ==
    IF ~client THEN [ok |-> TRUE, deleted |-> TRUE, error |-> PlainError(<<>>)]
    ELSE IF outcome.t \in {"data", "nodata"}
    THEN [ok |-> TRUE, deleted |-> TRUE, error |-> PlainError(<<>>)]
    ELSE IF outcome.t = "error" /\ Includes(outcome.message, "Not Found")
    THEN [ok |-> TRUE, deleted |-> FALSE, error |-> PlainError(<<>>)]
    ELSE [ok |-> FALSE, deleted |-> FALSE,
          error |-> AppError(<<"Failed to delete calendar event">>, 500,
                             "CALENDAR_DELETE_FAILED")]

-----------------------------------------------------------------------------
(* Agent B: the request and the handlers *)

EventIds == {NoString, <<"e1">>}

\* req.query.maxResults as parseInt reads it: NaN (absent or no number) or a number.
QueryMaxResults ==
    {[nan |-> TRUE, n |-> 0], [nan |-> FALSE, n |-> 0], [nan |-> FALSE, n |-> 3],
     [nan |-> FALSE, n |-> 60]}

\* Math.min(parseInt(req.query.maxResults) || 10, 50)
listMaxResults(q) == Min(IF q.nan \/ q.n = 0 THEN 10 ELSE q.n, 50)

UpdateBodies ==
    {[title |-> "", startTime |-> NoString, endTime |-> NoString],
     [title |-> "Moved", startTime |-> Iso(9), endTime |-> NoString]}

NoReq == [op |-> "none", user |-> [defined |-> FALSE, scopes |-> {}], xAgent |-> "other",
          bodyValid |-> TRUE, events |-> <<>>, eventId |-> NoString,
          query |-> [nan |-> TRUE, n |-> 0],
          updateData |-> [title |-> "", startTime |-> NoString, endTime |-> NoString]]

\* What the provider did for a gateway call: nothing when no call was made.
NoProvider == [t |-> "none", message |-> <<>>]
Did(client, outcome) ==
    IF client THEN [t |-> outcome.t, message |-> outcome.message] ELSE NoProvider

\* An entry of bCalls: the calendarService method, the draft's index (0 when
\* the method takes no draft), whether it returned, and what the provider did.
BCall(method, index, returned, provider) ==
    [method |-> method, index |-> index, returned |-> returned, provider |-> provider]

NoLast == [events |-> <<>>, calls |-> 0, created |-> 0]
NoPrev == [repeat |-> FALSE, calls |-> 0, created |-> 0]

\* next(error): the error reaches the error handler, which responds.
NextError(error) ==
    /\ bRes' = errorHandlerB(error)
    /\ bPc' = "done"

FreshLocals ==
    /\ bI' = 1
    /\ createdEvents' = <<>>
    /\ errors' = <<>>
    /\ bCalls' = <<>>

\* The invocation is over: its locals are gone.  A fully successful batch
\* leaves what it did in bLast for the request that follows it.
BReturn ==
    /\ bPc = "done"
    /\ bLast' = IF /\ bReq.op = "createEvents" /\ bRes.success /\ Len(bReq.events) > 0
                   /\ Len(bRes.data.created) = Len(bReq.events)
                THEN [events |-> bReq.events, calls |-> Len(bCalls),
                      created |-> Len(bRes.data.created)]
                ELSE NoLast
    /\ bPc' = "idle"
    /\ bReq' = NoReq
    /\ bRes' = NoRes
    /\ bPrev' = NoPrev
    /\ FreshLocals
    /\ UNCHANGED calendarClient

\* A route of the app that no controller serves: it answers at once.
AppRouteB(op, res) ==
    /\ bPc = "idle"
    /\ bReq' = [NoReq EXCEPT !.op = op]
    /\ bRes' = res
    /\ bPc' = "done"
    /\ bPrev' = NoPrev
    /\ bLast' = NoLast
    /\ FreshLocals
    /\ UNCHANGED calendarClient

healthCheckB == AppRouteB("health", healthResponse("agent-b-calendar"))

notFoundHandlerB == AppRouteB("notFound", notFoundResponse)

\* A request is starting with the body `events`: when the request before it
\* was a fully successful batch of the same drafts, what that batch did is
\* kept beside the new one.
RememberBatch(events) ==
    IF Len(events) > 0 /\ bLast.events = events
    THEN [repeat |-> TRUE, calls |-> bLast.calls, created |-> bLast.created]
    ELSE NoPrev

\* createEvents answering a batch it has just created without creating it again.
createEventsStartDeduplicates ==
    /\ bPc = "idle"
    /\ \E user \in Users, xAgent \in XAgents, body \in CreateBodies :
         LET bodyValid == ~validateCreateEventsRequest(body).error
             events == validateCreateEventsRequest(body).events
             way == createEventsEntry(bodyValid, events, user)
         IN
         /\ bReq' = [NoReq EXCEPT !.op = "createEvents", !.user = user, !.xAgent = xAgent,
                                  !.bodyValid = bodyValid, !.events = events]
         /\ bPrev' = RememberBatch(events)
         /\ bLast' = NoLast
         /\ FreshLocals
         /\ CASE way = "invalid" ->
                   NextError(AppError(<<"Invalid request parameters">>,
                                      400, "VALIDATION_ERROR"))
              [] way = "empty" ->
                   /\ bRes' = SuccessRes(200, [created |-> <<>>])
                   /\ bPc' = "done"
              [] way = "denied" ->
                   NextError(AppError(<<"Insufficient permissions for calendar operations">>,
                                      403, "INSUFFICIENT_SCOPE"))
              [] way = "loop" /\ RememberBatch(events).repeat ->
                   /\ bRes' = createEventsResponse(events, <<>>, <<>>)
                   /\ bPc' = "done"
              [] way = "loop" /\ ~RememberBatch(events).repeat ->
                   /\ bRes' = NoRes
                   /\ bPc' = "createLoop"
    /\ UNCHANGED calendarClient

\* createEvents, from the call to the first await (or to its response).
createEventsStart ==
    /\ bPc = "idle"
    /\ \E user \in Users, xAgent \in XAgents, body \in CreateBodies :
         LET bodyValid == ~validateCreateEventsRequest(body).error
             events == validateCreateEventsRequest(body).events
             way == createEventsEntry(bodyValid, events, user)
         IN
         /\ bReq' = [NoReq EXCEPT !.op = "createEvents", !.user = user, !.xAgent = xAgent,
                                  !.bodyValid = bodyValid, !.events = events]
         /\ bPrev' = RememberBatch(events)
         /\ bLast' = NoLast
         /\ FreshLocals
         /\ CASE way = "invalid" ->
                   NextError(AppError(<<"Invalid request parameters">>,
                                      400, "VALIDATION_ERROR"))
              [] way = "empty" ->
                   /\ bRes' = SuccessRes(200, [created |-> <<>>])
                   /\ bPc' = "done"
              [] way = "denied" ->
                   NextError(AppError(<<"Insufficient permissions for calendar operations">>,
                                      403, "INSUFFICIENT_SCOPE"))
              [] way = "loop" ->
                   /\ bRes' = NoRes
                   /\ bPc' = "createLoop"
    /\ UNCHANGED calendarClient

\* An iteration that leaves the loop at the first draft that fails.
createEventsIterationStopsOnError ==
    /\ bPc = "createLoop"
    /\ bI <= Len(bReq.events)
    /\ \E outcome \in InsertOutcomes, sfx \in MockSuffixes, now \in Nows :
         LET eventData == bReq.events[bI]
             enhancedEvent == enhanceEventData(eventData, now)
             r == createEvent(enhancedEvent, calendarClient, outcome, sfx, now)
         IN  /\ bCalls' = Append(bCalls, BCall("createEvent", bI, r.ok,
                                               Did(calendarClient, outcome)))
             /\ IF r.ok
                THEN /\ createdEvents' = Append(createdEvents, r.event)
                     /\ errors' = errors
                     /\ bI' = bI + 1
                ELSE /\ errors' = Append(errors, [event |-> eventData,
                                                  error |-> r.error.message])
                     /\ createdEvents' = createdEvents
                     /\ bI' = Len(bReq.events) + 1
    /\ UNCHANGED <<calendarClient, bPc, bReq, bRes, bLast, bPrev>>

\* One iteration of the for loop: enhanceEventData, calendarService.createEvent,
\* then push to createdEvents, or to errors when either threw.
createEventsIteration ==
    /\ bPc = "createLoop"
    /\ bI <= Len(bReq.events)
    /\ \E outcome \in InsertOutcomes, sfx \in MockSuffixes, now \in Nows :
         LET eventData == bReq.events[bI]
             enhancedEvent == enhanceEventData(eventData, now)
             r == createEvent(enhancedEvent, calendarClient, outcome, sfx, now)
         IN  /\ bCalls' = Append(bCalls, BCall("createEvent", bI, r.ok,
                                               Did(calendarClient, outcome)))
             /\ IF r.ok
                THEN /\ createdEvents' = Append(createdEvents, r.event)
                     /\ errors' = errors
                ELSE /\ errors' = Append(errors, [event |-> eventData,
                                                  error |-> r.error.message])
                     /\ createdEvents' = createdEvents
    /\ bI' = bI + 1
    /\ UNCHANGED <<calendarClient, bPc, bReq, bRes, bLast, bPrev>>

\* After the loop: the response.
createEventsRespond ==
    /\ bPc = "createLoop"
    /\ bI > Len(bReq.events)
    /\ bRes' = createEventsResponse(bReq.events, createdEvents, errors)
    /\ bPc' = "done"
    /\ UNCHANGED <<calendarClient, bReq, bI, createdEvents, errors, bCalls, bLast, bPrev>>

\* The head of a handler that takes no body: the event id where the route has
\* one, then the scope; "call" when the service is to be called.
GuardedEntry(needsId, eventId, userInfo, scope) ==
    IF needsId /\ ~Truthy(eventId) THEN "noid"
    ELSE IF ~HasScope(userInfo, scope) THEN "denied"
    ELSE "call"

\* The head of listEvents, getEvent, updateEvent or deleteEvent: up to the
\* await of the calendarService call.
GuardedStart(op, needsId, scope, deniedMessage, callPc) ==
    /\ bPc = "idle"
    /\ \E user \in Users, xAgent \in XAgents, eventId \in EventIds,
          q \in QueryMaxResults, updateData \in UpdateBodies :
         /\ needsId \/ eventId = NoString
         /\ op = "listEvents" \/ q = NoReq.query
         /\ op = "updateEvent" \/ updateData = NoReq.updateData
         /\ bReq' = [NoReq EXCEPT !.op = op, !.user = user, !.xAgent = xAgent,
                                  !.eventId = eventId, !.query = q,
                                  !.updateData = updateData]
         /\ LET way == GuardedEntry(needsId, eventId, user, scope) IN
            CASE way = "noid" ->
                   NextError(AppError(<<"Event ID is required">>, 400, "MISSING_EVENT_ID"))
              [] way = "denied" ->
                   NextError(AppError(deniedMessage, 403, "INSUFFICIENT_SCOPE"))
              [] way = "call" ->
                   /\ bRes' = NoRes
                   /\ bPc' = callPc
    /\ bPrev' = NoPrev
    /\ bLast' = NoLast
    /\ FreshLocals
    /\ UNCHANGED calendarClient

Called(method, returned, outcome) ==
    /\ bCalls' = Append(bCalls, BCall(method, 0, returned, Did(calendarClient, outcome)))
    /\ UNCHANGED <<calendarClient, bReq, bI, createdEvents, errors, bLast, bPrev>>

listEventsStart ==
    GuardedStart("listEvents", FALSE, "calendar.read",
                 <<"Insufficient permissions for calendar read operations">>, "listCall")

listEventsCall ==
    /\ bPc = "listCall"
    /\ \E outcome \in ListOutcomes, now \in Nows :
         LET maxResults == listMaxResults(bReq.query)
             events == listUpcomingEvents(maxResults, calendarClient, outcome, now).event
         IN  /\ bRes' = SuccessRes(200, [events |-> events, count |-> Len(events),
                                         maxResults |-> maxResults])
             /\ bPc' = "done"
             /\ Called("listUpcomingEvents", TRUE, outcome)

getEventStart ==
    GuardedStart("getEvent", TRUE, "calendar.read",
                 <<"Insufficient permissions for calendar read operations">>, "getCall")

getEventCall ==
    /\ bPc = "getCall"
    /\ \E outcome \in EventOutcomes, now \in Nows :
         /\ LET event == getEventService(bReq.eventId, calendarClient, outcome, now).event
            IN  IF ~Truthy(event.id)
                THEN NextError(AppError(<<"Event not found">>, 404, "EVENT_NOT_FOUND"))
                ELSE /\ bRes' = SuccessRes(200, [event |-> event])
                     /\ bPc' = "done"
         /\ Called("getEvent", TRUE, outcome)

updateEventStart ==
    GuardedStart("updateEvent", TRUE, "calendar.write",
                 <<"Insufficient permissions for calendar write operations">>, "updateCall")

updateEventCall ==
    /\ bPc = "updateCall"
    /\ \E getOutcome \in EventOutcomes, updateOutcome \in EventOutcomes, now \in Nows :
         /\ LET updatedEvent == updateEventService(bReq.eventId, bReq.updateData, calendarClient,
                                                   getOutcome, updateOutcome, now).event
            IN  IF ~Truthy(updatedEvent.id)
                THEN NextError(AppError(<<"Event not found or update failed">>, 404,
                                        "EVENT_UPDATE_FAILED"))
                ELSE /\ bRes' = SuccessRes(200, [event |-> updatedEvent])
                     /\ bPc' = "done"
         /\ Called("updateEvent", TRUE, getOutcome)

\* deleteEvent with calendarService.deleteEvent called ahead of the scope check.
deleteEventStartCallsFirst ==
    /\ bPc = "idle"
    /\ \E user \in Users, xAgent \in XAgents, eventId \in EventIds :
         /\ bReq' = [NoReq EXCEPT !.op = "deleteEvent", !.user = user, !.xAgent = xAgent,
                                  !.eventId = eventId]
         /\ LET way == GuardedEntry(TRUE, eventId, user, "calendar.write") IN
            CASE way = "noid" ->
                   /\ NextError(AppError(<<"Event ID is required">>, 400, "MISSING_EVENT_ID"))
                   /\ bCalls' = <<>>
              [] way = "denied" ->
                   /\ NextError(AppError(
                          <<"Insufficient permissions for calendar write operations">>,
                          403, "INSUFFICIENT_SCOPE"))
                   /\ bCalls' = <<BCall("deleteEvent", 0, TRUE, NoProvider)>>
              [] way = "call" ->
                   /\ bRes' = NoRes
                   /\ bPc' = "deleteCall"
                   /\ bCalls' = <<>>
    /\ bPrev' = NoPrev
    /\ bLast' = NoLast
    /\ bI' = 1
    /\ createdEvents' = <<>>
    /\ errors' = <<>>
    /\ UNCHANGED calendarClient

deleteEventStart ==
    GuardedStart("deleteEvent", TRUE, "calendar.write",
                 <<"Insufficient permissions for calendar write operations">>, "deleteCall")

deleteEventCall ==
    /\ bPc = "deleteCall"
    /\ \E outcome \in EventOutcomes :
         /\ LET r == deleteEventService(bReq.eventId, calendarClient, outcome)
            IN  IF ~r.ok THEN NextError(r.error)
                ELSE IF ~r.deleted
                THEN NextError(AppError(<<"Event not found or deletion failed">>, 404,
                                        "EVENT_DELETE_FAILED"))
                ELSE /\ bRes' = SuccessRes(200, [deleted |-> TRUE, eventId |-> bReq.eventId])
                     /\ bPc' = "done"
         /\ Called("deleteEvent",
                   deleteEventService(bReq.eventId, calendarClient, outcome).ok, outcome)

-----------------------------------------------------------------------------
(* Agent A: the services processInbox calls *)

\* Agent A's errorHandler.
errorHandler(error) ==
    IF error.name = "AppError"
    THEN [status |-> error.status, success |-> FALSE, code |-> error.code,
          data |-> [message |-> error.message],
          keys |-> {"success", "error", "timestamp"},
          errorKeys |-> {"message", "code", "details"}]
    ELSE IF error.name = "ValidationError"
    THEN [status |-> 400, success |-> FALSE, code |-> "VALIDATION_ERROR",
          data |-> [message |-> <<"Validation failed">>],
          keys |-> {"success", "error", "timestamp"},
          errorKeys |-> {"message", "code", "details"}]
    ELSE [status |-> 500, success |-> FALSE, code |-> "INTERNAL_ERROR",
          data |-> [message |-> <<"Internal server error">>],
          keys |-> {"success", "error", "timestamp"},
          errorKeys |-> {"message", "code"}]

\* req.body.maxResults: absent, or a number that is an integer or not.
MaxResultsInputs ==
    {[given |-> FALSE, integer |-> TRUE, n |-> 0]}
        \cup {[given |-> TRUE, integer |-> TRUE, n |-> n] : n \in {0, 51} \cup 1..MaxMessages}
        \cup {[given |-> TRUE, integer |-> FALSE, n |-> 2]}

\* The schema without its upper limit.
validateProcessEmailsRequestNoMax(body) ==
    IF ~body.given THEN [error |-> FALSE, maxResults |-> 5]
    ELSE IF ~body.integer \/ body.n < 1
    THEN [error |-> TRUE, maxResults |-> 0]
    ELSE [error |-> FALSE, maxResults |-> body.n]

\* Joi.object({ maxResults: Joi.number().integer().min(1).max(50).default(5) })
validateProcessEmailsRequest(body) ==
    IF ~body.given THEN [error |-> FALSE, maxResults |-> 5]
    ELSE IF ~body.integer \/ body.n < 1 \/ body.n > 50
    THEN [error |-> TRUE, maxResults |-> 0]
    ELSE [error |-> FALSE, maxResults |-> body.n]

\* The Authorization header: absent, or its text as fragments.
AuthorizationHeaders ==
    {[present |-> FALSE, text |-> <<>>],
     [present |-> TRUE, text |-> <<"Bearer ">>],
     [present |-> TRUE, text |-> <<"Bearer ", "jwt1">>],
     [present |-> TRUE, text |-> <<"jwt2">>]}

\* s.replace("Bearer ", ""): the first occurrence goes.
RECURSIVE RemoveFirst(_, _)
RemoveFirst(text, fragment) ==
    IF text = <<>> THEN <<>>
    ELSE IF Head(text) = fragment THEN Tail(text)
    ELSE <<Head(text)>> \o RemoveFirst(Tail(text), fragment)

\* req.headers.authorization?.replace("Bearer ", "")
SessionJwtOf(header) ==
    IF header.present THEN RemoveFirst(header.text, "Bearer ") ELSE NoString

MockEmailIds == <<"mock_email_1", "mock_email_2", "mock_email_3", "mock_email_4", "mock_email_5">>
ProviderEmailIds == <<"m1", "m2", "m3", "m4">>

getMockEmailList(max) == SubSeq(MockEmailIds, 1, Min(max, Len(MockEmailIds)))

ListMailOutcomes ==
    {[t |-> "data", n |-> n, message |-> <<>>] : n \in 0..MaxMessages}
        \cup {[t |-> "nonerror", n |-> 0, message |-> <<>>]}
        \cup {[t |-> "error", n |-> 0, message |-> m] : m \in ErrorMessages}

\* GmailService.getRecentEmails
getRecentEmails(max, client, outcome) ==
    IF ~client THEN Returned(getMockEmailList(max))
    ELSE IF outcome.t = "data"
    THEN Returned(SubSeq(ProviderEmailIds, 1, Min(outcome.n, max)))
    ELSE IF outcome.t = "error" /\ Includes(outcome.message, "invalid_grant")
    THEN Thrown(AppError(<<"Gmail authentication expired, please re-authenticate">>,
                         401, "GMAIL_AUTH_EXPIRED"))
    ELSE IF outcome.t = "error" /\ Includes(outcome.message, "insufficient permissions")
    THEN Thrown(AppError(<<"Insufficient permissions to access Gmail">>,
                         403, "GMAIL_PERMISSIONS_ERROR"))
    ELSE Returned(getMockEmailList(max))

MailOutcomes ==
    {[t |-> "data", message |-> <<>>], [t |-> "nonerror", message |-> <<>>],
     [t |-> "error", message |-> <<"Not Found">>],
     [t |-> "error", message |-> <<"ECONNRESET">>]}

\* What messages.get does for a message of the loop of processInbox: the
\* message, or the rejection that getEmailContent lets through.
ContentOutcomes ==
    {o \in MailOutcomes : o.t = "data" \/ Includes(o.message, "Not Found")}

EmailOf(messageId, subject) == [id |-> messageId, subject |-> subject]

\* The object literal mockEmails of getMockEmailContent: its own keys.
mockEmails ==
    [id \in {MockEmailIds[k] : k \in 1..Len(MockEmailIds)} |->
        EmailOf(id, CASE id = "mock_email_1" -> "Project Review Meeting - Tomorrow 2PM"
                      [] id = "mock_email_2" -> "Deadline Reminder: Budget Report Due Friday"
                      [] id = "mock_email_3" -> "Follow-up: Client Presentation Feedback"
                      [] id = "mock_email_4" -> "Welcome to the team!"
                      [] OTHER -> "Monthly Team Standup - Schedule Change")]

\* Keys every object literal inherits from Object.prototype: mockEmails[key]
\* is then a member of the prototype, a truthy value that is no EmailData
\* (reading its id or subject gives undefined).
ObjectPrototypeKeys == {"constructor", "toString"}
InheritedMember == [id |-> "", subject |-> ""]

\* mockEmails[messageId] || { id: messageId, subject: "Mock Email Subject", ... }
getMockEmailContent(messageId) ==
    IF messageId \in DOMAIN mockEmails THEN mockEmails[messageId]
    ELSE IF messageId \in ObjectPrototypeKeys THEN InheritedMember
    ELSE EmailOf(messageId, "Mock Email Subject")

\* GmailService.getEmailContent
getEmailContent(messageId, client, outcome) ==
    IF ~client THEN Returned(getMockEmailContent(messageId))
    ELSE IF outcome.t = "data" THEN Returned(EmailOf(messageId, "Subject"))
    ELSE IF outcome.t = "error" /\ Includes(outcome.message, "Not Found")
    THEN Thrown(AppError(<<"Email not found">>, 404, "EMAIL_NOT_FOUND"))
    ELSE Returned(getMockEmailContent(messageId))

\* What the completion call of the AI service does: content (possibly empty
\* once trimmed), or a rejection.
SummaryOutcomes ==
    {[t |-> "data", content |-> "Asks for a meeting.", message |-> <<>>],
     [t |-> "data", content |-> "", message |-> <<>>],
     [t |-> "error", content |-> "", message |-> <<"rate_limit">>],
     [t |-> "error", content |-> "", message |-> <<"insufficient_quota">>],
     [t |-> "error", content |-> "", message |-> <<"ECONNRESET">>]}

\* AIService.summarizeEmail
summarizeEmail(outcome) ==
    IF outcome.t = "data"
    THEN Returned(IF TruthyText(outcome.content) THEN outcome.content
                  ELSE "Unable to generate summary for this email.")
    ELSE IF Includes(outcome.message, "rate_limit")
    THEN Thrown(AppError(<<"OpenAI rate limit exceeded">>, 429, "RATE_LIMIT_EXCEEDED"))
    ELSE IF Includes(outcome.message, "insufficient_quota")
    THEN Thrown(AppError(<<"OpenAI quota exceeded">>, 429, "QUOTA_EXCEEDED"))
    ELSE Thrown(AppError(<<"Failed to generate email summary">>, 500,
                         "AI_SUMMARIZATION_FAILED"))

\* Date.now() as processInbox reads it once the messages are processed and
\* the token request has completed: the clock of the extraction (Nows) or a
\* later one.  The clock does not go back between two readings.
ClockReadings == Nows \cup {102}

\* What can be read after a reading of t; what does not look at the clock
\* again stays with t.
ClockFrom(t, reads) == IF reads THEN {n \in ClockReadings : n >= t} ELSE {t}

\* The suggestedDate of an action as the completion gives it: absent, a string
\* that is no date, or a date (before, between and after the clock readings).
NoDate == [kind |-> "absent", t |-> 0]
RawDates ==
    {NoDate, [kind |-> "invalid", t |-> 0], [kind |-> "date", t |-> 50],
     [kind |-> "date", t |-> 101]}

\* The JSON array a completion yields: no action, one without a title, one
\* without a date, or two of which the first has a date.
RawActionLists ==
    {<<>>,
     <<[title |-> "", suggestedDate |-> NoDate]>>,
     <<[title |-> "Call", suggestedDate |-> NoDate]>>}
        \cup {<<[title |-> "Review", suggestedDate |-> d],
                [title |-> "Call", suggestedDate |-> NoDate]>> :
                  d \in RawDates \ {NoDate}}

\* AIService.validateDate: undefined for what is no date string and for a
\* date before the clock reading, else the date as an ISO string.
validateDate(date, now) ==
    IF date.kind # "date" THEN NoString
    ELSE IF date.t < now THEN NoString
    ELSE Iso(date.t)

HasTitle(action) == TruthyText(action.title)

\* AIService.validateAndEnhanceActions
validateAndEnhanceActions(actions, now) ==
    LET titled == SelectSeq(actions, HasTitle)
    IN  [k \in 1..Len(titled) |->
            [title |-> titled[k].title,
             suggestedDate |-> validateDate(titled[k].suggestedDate, now)]]

ActionOutcomes ==
    {[t |-> "data", actions |-> a, message |-> <<>>] : a \in RawActionLists}
        \cup {[t |-> "error", actions |-> <<>>, message |-> <<"rate_limit">>],
              [t |-> "error", actions |-> <<>>, message |-> <<"ECONNRESET">>]}

\* AIService.extractActionItems; `now` is the clock as validateDate reads it.
extractActionItems(outcome, now) ==
    IF outcome.t = "data" THEN Returned(validateAndEnhanceActions(outcome.actions, now))
    ELSE IF Includes(outcome.message, "rate_limit")
    THEN Thrown(AppError(<<"OpenAI rate limit exceeded">>, 429, "RATE_LIMIT_EXCEEDED"))
    ELSE Thrown(AppError(<<"Failed to extract action items">>, 500, "AI_EXTRACTION_FAILED"))

\* descopeService.requestDelegatedToken: a token, no token (null or the empty
\* string), or a thrown error.
TokenOutcomes ==
    {[t |-> "token", token |-> <<"delegated1">>, error |-> PlainError(<<>>)],
     [t |-> "token", token |-> NoString, error |-> PlainError(<<>>)],
     [t |-> "null", token |-> NoString, error |-> PlainError(<<>>)],
     [t |-> "throw", token |-> NoString, error |-> PlainError(<<"network error">>)]}

requestDelegatedToken(outcome) ==
    IF outcome.t = "throw" THEN Thrown(outcome.error) ELSE Returned(outcome.token)

\* descopeService.callAgentBCreateEvents: Agent B's data with the events it
\* created (`n` of the drafts sent), or a thrown error.
callAgentBCreateEvents(token, events, n, fails) ==
    IF fails THEN Thrown(PlainError(<<"Agent B request failed">>))
    ELSE Returned([created |-> SubSeq(events, 1, n)])

-----------------------------------------------------------------------------
(* Agent A: processInbox *)

\* req.body.email of an extract-tasks request: undefined, null, a string, an
\* array, or an object with some of the fields of EmailData.
RequiredEmailFields == {"id", "subject", "from", "body", "threadId", "receivedAt"}

NoEmailInput == [kind |-> "undefined", fields |-> {}]

EmailInputs ==
    {[kind |-> k, fields |-> {}] : k \in {"undefined", "null", "string", "array"}}
        \cup {[kind |-> "object", fields |-> f] :
                 f \in {RequiredEmailFields, RequiredEmailFields \ {"threadId"},
                        RequiredEmailFields \ {"body"}, {}}}

\* validateExtractTasksRequest: email is an object with every required field.
validateExtractTasksRequest(body) ==
    [error |-> body.email.kind # "object" \/ body.email.fields # RequiredEmailFields]

NoAReq == [op |-> "none",
           body |-> [given |-> FALSE, integer |-> TRUE, n |-> 0],
           authorization |-> [present |-> FALSE, text |-> <<>>],
           email |-> NoEmailInput]

NoEmail == [id |-> "", subject |-> ""]

ALocalsFresh ==
    /\ aMaxResults' = 0
    /\ userSessionJwt' = NoString
    /\ messages' = <<>>
    /\ aI' = 1
    /\ curEmail' = NoEmail
    /\ curSummary' = ""
    /\ items' = <<>>
    /\ aErrors' = <<>>
    /\ delegatedToken' = NoString
    /\ eventsToCreate' = <<>>
    /\ aBuiltAt' = 0
    /\ aDelegation' = "none"
    /\ aAgentB' = "none"

\* next(error) of the outer catch.
ANextError(error) ==
    /\ aRes' = errorHandler(error)
    /\ aPc' = "done"

ACall(method, arg) == [method |-> method, arg |-> arg]

\* The call the handler was suspended on has completed, and the calls the
\* step adds to aCalls have started.
Awaited == aInFlight' = aInFlight - 1 + (Len(aCalls') - Len(aCalls))

\* A token request that asks for the read scope instead.
TokenRequestForRead(jwt) ==
    ACall("requestDelegatedToken",
          [userSessionJwt |-> jwt, audience |-> "agent-b-calendar",
           scopes |-> <<"calendar.read">>])

\* descopeService.requestDelegatedToken(userSessionJwt, "agent-b-calendar",
\* ["calendar.write"]): the call and its arguments.
TokenRequest(jwt) ==
    ACall("requestDelegatedToken",
          [userSessionJwt |-> jwt, audience |-> "agent-b-calendar",
           scopes |-> <<"calendar.write">>])

\* A loop that is left after its first turn.
AfterMessageLeaves(k) == "delegate"

\* Where the loop goes after the message at aI: the next message, or the
\* delegation step after the last one.
AfterMessage(k) == IF k < Len(messages) THEN "content" ELSE "delegate"

\* A head of processInbox that does not look at the bearer value.
processInboxEntryAnyBearer(body, header) ==
    IF validateProcessEmailsRequest(body).error THEN "invalid" ELSE "fetch"

\* The head of processInbox: validation, the bearer value, then the call of
\* gmailService.getRecentEmails.
processInboxEntry(body, header) ==
    IF validateProcessEmailsRequest(body).error THEN "invalid"
    ELSE IF ~Truthy(SessionJwtOf(header)) THEN "notoken"
    ELSE "fetch"

processInboxStart ==
    /\ aPc = "idle"
    /\ \E body \in MaxResultsInputs, header \in AuthorizationHeaders :
         LET way == processInboxEntry(body, header) IN
         /\ way = "fetch" /\ ~gmailClient =>
                Len(getMockEmailList(validateProcessEmailsRequest(body).maxResults))
                    <= MaxMessages
         /\ aReq' = [NoAReq EXCEPT !.op = "processInbox", !.body = body,
                                   !.authorization = header]
         /\ messages' = <<>> /\ aI' = 1 /\ curEmail' = NoEmail /\ curSummary' = ""
         /\ items' = <<>> /\ aErrors' = <<>> /\ delegatedToken' = NoString
         /\ eventsToCreate' = <<>> /\ aDelegation' = "none" /\ aAgentB' = "none"
         /\ aBuiltAt' = 0
         /\ CASE way = "invalid" ->
                   /\ ANextError(AppError(<<"Invalid request parameters">>, 400,
                                          "VALIDATION_ERROR"))
                   /\ aMaxResults' = 0 /\ userSessionJwt' = NoString
                   /\ aCalls' = <<>>
              [] way = "notoken" ->
                   /\ ANextError(AppError(<<"Authorization header required">>, 401,
                                          "MISSING_TOKEN"))
                   /\ aMaxResults' = validateProcessEmailsRequest(body).maxResults
                   /\ userSessionJwt' = SessionJwtOf(header)
                   /\ aCalls' = <<>>
              [] way = "fetch" ->
                   /\ aRes' = NoRes
                   /\ aPc' = "fetch"
                   /\ aMaxResults' = validateProcessEmailsRequest(body).maxResults
                   /\ userSessionJwt' = SessionJwtOf(header)
                   /\ aCalls' = <<ACall("getRecentEmails",
                                        validateProcessEmailsRequest(body).maxResults)>>
         /\ aInFlight' = Len(aCalls')
    /\ UNCHANGED gmailClient

\* The fetch step starting getEmailContent for every message at once.
processInboxFetchAllAtOnce ==
    /\ aPc = "fetch"
    /\ \E outcome \in ListMailOutcomes :
         LET r == getRecentEmails(aMaxResults, gmailClient, outcome) IN
         IF r.ok
         THEN /\ Len(r.event) <= MaxMessages
              /\ messages' = r.event
              /\ aPc' = IF Len(r.event) > 0 THEN "content" ELSE "delegate"
              /\ aRes' = aRes
              /\ aCalls' = IF Len(r.event) > 0
                           THEN aCalls \o [k \in 1..Len(r.event) |->
                                              ACall("getEmailContent", r.event[k])]
                           ELSE Append(aCalls, TokenRequest(userSessionJwt))
         ELSE /\ ANextError(r.error)
              /\ messages' = messages
              /\ aCalls' = aCalls
    /\ Awaited
    /\ UNCHANGED <<gmailClient, aReq, aMaxResults, userSessionJwt, aI, curEmail, curSummary,
                   items, aErrors, delegatedToken, eventsToCreate, aBuiltAt, aDelegation,
                   aAgentB>>

\* await gmailService.getRecentEmails(maxResults) completes.
processInboxFetch ==
    /\ aPc = "fetch"
    /\ \E outcome \in ListMailOutcomes :
         LET r == getRecentEmails(aMaxResults, gmailClient, outcome) IN
         IF r.ok
         THEN /\ Len(r.event) <= MaxMessages
              /\ messages' = r.event
              /\ aPc' = IF Len(r.event) > 0 THEN "content" ELSE "delegate"
              /\ aRes' = aRes
              /\ aCalls' = IF Len(r.event) > 0
                           THEN Append(aCalls, ACall("getEmailContent", r.event[1]))
                           ELSE Append(aCalls, TokenRequest(userSessionJwt))
         ELSE /\ ANextError(r.error)
              /\ messages' = messages
              /\ aCalls' = aCalls
    /\ Awaited
    /\ UNCHANGED <<gmailClient, aReq, aMaxResults, userSessionJwt, aI, curEmail, curSummary,
                   items, aErrors, delegatedToken, eventsToCreate, aBuiltAt, aDelegation,
                   aAgentB>>

\* A catch that records the failure and leaves the loop.
MessageFailedLeavesLoop(error) ==
    /\ aErrors' = Append(aErrors, [emailId |-> messages[aI], error |-> error.message])
    /\ items' = items
    /\ curEmail' = NoEmail
    /\ curSummary' = ""
    /\ aI' = Len(messages) + 1
    /\ aPc' = "delegate"
    /\ aCalls' = Append(aCalls, TokenRequest(userSessionJwt))

\* The catch of the loop body, then the loop's next turn: the failure is
\* recorded under the message's id and the loop goes on.
MessageFailed(error) ==
    /\ aErrors' = Append(aErrors, [emailId |-> messages[aI], error |-> error.message])
    /\ items' = items
    /\ curEmail' = NoEmail
    /\ curSummary' = ""
    /\ aI' = aI + 1
    /\ aPc' = AfterMessage(aI)
    /\ aCalls' = IF aI < Len(messages)
                 THEN Append(aCalls, ACall("getEmailContent", messages[aI + 1]))
                 ELSE Append(aCalls, TokenRequest(userSessionJwt))

\* await gmailService.getEmailContent(message.id) completes.
processInboxContent ==
    /\ aPc = "content"
    /\ \E outcome \in ContentOutcomes :
         LET r == getEmailContent(messages[aI], gmailClient, outcome) IN
         IF r.ok
         THEN /\ curEmail' = r.event
              /\ aPc' = "summarize"
              /\ aCalls' = Append(aCalls, ACall("summarizeEmail", r.event.id))
              /\ UNCHANGED <<aI, curSummary, items, aErrors>>
         ELSE MessageFailed(r.error)
    /\ Awaited
    /\ UNCHANGED <<gmailClient, aReq, aMaxResults, userSessionJwt, messages,
                   delegatedToken, eventsToCreate, aBuiltAt, aDelegation,
                   aAgentB, aRes>>

\* await aiService.summarizeEmail(email) completes.
processInboxSummarize ==
    /\ aPc = "summarize"
    /\ \E outcome \in SummaryOutcomes :
         LET r == summarizeEmail(outcome) IN
         IF r.ok
         THEN /\ curSummary' = r.event
              /\ aPc' = "extract"
              /\ aCalls' = Append(aCalls, ACall("extractActionItems", curEmail.id))
              /\ UNCHANGED <<aI, curEmail, items, aErrors>>
         ELSE MessageFailed(r.error)
    /\ Awaited
    /\ UNCHANGED <<gmailClient, aReq, aMaxResults, userSessionJwt, messages,
                   delegatedToken, eventsToCreate, aBuiltAt, aDelegation,
                   aAgentB, aRes>>

\* await aiService.extractActionItems(email) completes; items.push.
processInboxExtract ==
    /\ aPc = "extract"
    /\ \E outcome \in ActionOutcomes, now \in Nows :
         LET r == extractActionItems(outcome, now) IN
         /\ IF r.ok
            THEN /\ items' = Append(items, [email |-> curEmail, summary |-> curSummary,
                                            actions |-> r.event])
                 /\ curEmail' = NoEmail
                 /\ curSummary' = ""
                 /\ aI' = aI + 1
                 /\ aPc' = AfterMessage(aI)
                 /\ aErrors' = aErrors
                 /\ aCalls' = IF aI < Len(messages)
                              THEN Append(aCalls, ACall("getEmailContent", messages[aI + 1]))
                              ELSE Append(aCalls, TokenRequest(userSessionJwt))
            ELSE MessageFailed(r.error)
    /\ Awaited
    /\ UNCHANGED <<gmailClient, aReq, aMaxResults, userSessionJwt, messages,
                   delegatedToken, eventsToCreate, aBuiltAt, aDelegation,
                   aAgentB, aRes>>

\* One draft of eventsToCreate, from an item and one of its actions; the
\* default start and the default end each read the clock.
DraftOf(item, action, now, later) ==
    [title |-> action.title,
     description |-> <<item.summary, "Original Email: ", item.email.subject>>,
     startTime |-> IF Truthy(action.suggestedDate) THEN action.suggestedDate
                   ELSE Iso(now + 24 * OneHour),
     endTime |-> IF Truthy(action.suggestedDate)
                 THEN Iso(action.suggestedDate[2] + OneHour)
                 ELSE Iso(later + 25 * OneHour),
     attendees |-> <<>>]

\* A draft for the first action of each item only.
FlatDraftsOnePerItem(its, now, later) ==
    LET HasAction(item) == Len(item.actions) > 0
        withAction == SelectSeq(its, HasAction)
    IN  [k \in 1..Len(withAction) |->
            DraftOf(withAction[k], withAction[k].actions[1], now, later)]

\* items.flatMap((item) => item.actions.map(...))
RECURSIVE FlatDrafts(_, _, _)
FlatDrafts(its, now, later) ==
    IF its = <<>> THEN <<>>
    ELSE [k \in 1..Len(Head(its).actions) |->
             DraftOf(Head(its), Head(its).actions[k], now, later)]
            \o FlatDrafts(Tail(its), now, later)

\* Some action of the items has no suggested date: its draft gets the defaults.
HasDefaulted(its) ==
    \E k \in 1..Len(its) : \E j \in 1..Len(its[k].actions) :
        ~Truthy(its[k].actions[j].suggestedDate)

\* The ProcessEmailsResponse and its envelope.
processInboxResponse(its, created, errs) ==
    SuccessRes(200,
        [processed |-> Len(its),
         summaries |-> [k \in 1..Len(its) |->
                           [id |-> its[k].email.id, summary |-> its[k].summary,
                            actionItems |-> its[k].actions]],
         eventsCreated |-> created,
         errors |-> errs])

\* processInbox going on without a token instead of failing.
DelegationWayDegrades(r) ==
    IF ~r.ok THEN [way |-> "throw", error |-> r.error]
    ELSE [way |-> "token", error |-> PlainError(<<>>)]

\* What processInbox does with the outcome of requestDelegatedToken: a thrown
\* error leaves through the outer catch as it is, no token is the
\* DELEGATION_FAILED error, a token lets the handler go on.
DelegationWay(r) ==
    IF ~r.ok THEN [way |-> "throw", error |-> r.error]
    ELSE IF ~Truthy(r.event)
    THEN [way |-> "failed",
          error |-> AppError(<<"Failed to obtain delegated token for calendar operations">>,
                             403, "DELEGATION_FAILED")]
    ELSE [way |-> "token", error |-> PlainError(<<>>)]

\* The delegation step asking once more when it got no token.
processInboxDelegateRetries ==
    /\ aPc = "delegate"
    /\ \E outcome \in TokenOutcomes, now \in ClockReadings, later \in ClockReadings :
         LET r == requestDelegatedToken(outcome)
             d == DelegationWay(r)
             drafts == FlatDrafts(items, now, later)
             built == d.way = "token"
         IN  /\ built \/ now \in Nows
             /\ later \in ClockFrom(now, built /\ HasDefaulted(items))
             /\ aBuiltAt' = IF built THEN now ELSE aBuiltAt
             /\ aAgentB' = aAgentB
             /\ aDelegation' = IF ~r.ok THEN "throw"
                                ELSE IF Truthy(r.event) THEN "token" ELSE "notoken"
             /\ IF d.way = "failed" /\ aDelegation = "none"
                THEN /\ aCalls' = Append(aCalls, TokenRequest(userSessionJwt))
                     /\ UNCHANGED <<delegatedToken, eventsToCreate, aPc, aRes>>
                ELSE IF d.way # "token"
                THEN /\ ANextError(d.error)
                     /\ UNCHANGED <<delegatedToken, eventsToCreate, aCalls>>
                ELSE /\ delegatedToken' = r.event
                     /\ eventsToCreate' = drafts
                     /\ IF Len(drafts) > 0
                        THEN /\ aPc' = "agentB"
                             /\ aRes' = aRes
                             /\ aCalls' = Append(aCalls,
                                                 ACall("callAgentBCreateEvents", r.event))
                        ELSE /\ aPc' = "done"
                             /\ aRes' = processInboxResponse(items, <<>>, aErrors)
                             /\ aCalls' = aCalls
    /\ Awaited
    /\ UNCHANGED <<gmailClient, aReq, aMaxResults, userSessionJwt, messages, aI, curEmail,
                   curSummary, items, aErrors>>

\* await descopeService.requestDelegatedToken(...) completes; then the drafts
\* are built, and Agent B is called when there is one, else the response is sent.
processInboxDelegate ==
    /\ aPc = "delegate"
    /\ \E outcome \in TokenOutcomes, now \in ClockReadings, later \in ClockReadings :
         LET r == requestDelegatedToken(outcome)
             d == DelegationWay(r)
             drafts == FlatDrafts(items, now, later)
             built == d.way = "token"
         IN  /\ built \/ now \in Nows
             /\ later \in ClockFrom(now, built /\ HasDefaulted(items))
             /\ aBuiltAt' = IF built THEN now ELSE aBuiltAt
             /\ aAgentB' = aAgentB
             /\ aDelegation' = IF ~r.ok THEN "throw"
                                ELSE IF Truthy(r.event) THEN "token" ELSE "notoken"
             /\ IF d.way # "token"
                THEN /\ ANextError(d.error)
                     /\ UNCHANGED <<delegatedToken, eventsToCreate, aCalls>>
                ELSE /\ delegatedToken' = r.event
                     /\ eventsToCreate' = drafts
                     /\ IF Len(drafts) > 0
                        THEN /\ aPc' = "agentB"
                             /\ aRes' = aRes
                             /\ aCalls' = Append(aCalls,
                                                 ACall("callAgentBCreateEvents", r.event))
                        ELSE /\ aPc' = "done"
                             /\ aRes' = processInboxResponse(items, <<>>, aErrors)
                             /\ aCalls' = aCalls
    /\ Awaited
    /\ UNCHANGED <<gmailClient, aReq, aMaxResults, userSessionJwt, messages, aI, curEmail,
                   curSummary, items, aErrors>>

\* A step 5 without its try: the error of the Agent B call leaves the handler.
AfterAgentBCallRethrows(its, errs, r) ==
    IF r.ok
    THEN [errors |-> errs, res |-> processInboxResponse(its, r.event.created, errs)]
    ELSE [errors |-> errs, res |-> errorHandler(r.error)]

\* Step 5 once callAgentBCreateEvents has completed with `r`: its result's
\* created list is kept, or its error is pushed to errors under the id
\* "calendar-creation"; then the response is built and sent.
AfterAgentBCall(its, errs, r) ==
    IF r.ok
    THEN [errors |-> errs, res |-> processInboxResponse(its, r.event.created, errs)]
    ELSE LET all == Append(errs, [emailId |-> "calendar-creation",
                                  error |-> r.error.message])
         IN  [errors |-> all, res |-> processInboxResponse(its, <<>>, all)]

\* await descopeService.callAgentBCreateEvents(...) completes; the response.
processInboxAgentB ==
    /\ aPc = "agentB"
    /\ \E n \in {0, 1, Len(eventsToCreate)}, fails \in BOOLEAN :
         LET r == callAgentBCreateEvents(delegatedToken, eventsToCreate, n, fails) IN
         /\ fails => n = 0
         /\ aErrors' = AfterAgentBCall(items, aErrors, r).errors
         /\ aRes' = AfterAgentBCall(items, aErrors, r).res
         /\ aAgentB' = IF r.ok THEN "returned" ELSE "throw"
    /\ aPc' = "done"
    /\ UNCHANGED <<gmailClient, aReq, aMaxResults, userSessionJwt, messages, aI, curEmail,
                   curSummary, items, delegatedToken, eventsToCreate, aCalls, aBuiltAt,
                   aDelegation>>
    /\ Awaited

-----------------------------------------------------------------------------
(* Agent A: extractTasks *)

\* !email || typeof email !== "object"
IsObject(email) == email.kind \in {"array", "object"}

\* buildSummarizationPrompt and buildActionExtractionPrompt read
\* email.body.substring: a TypeError when the email has no body.
PromptBuilds(email) == "body" \in email.fields

\* aiService.summarizeEmail(email) for the email of an extract-tasks request:
\* the TypeError is raised inside the try block and leaves as the catch's AppError.
summarizeEmailOf(email, outcome) ==
    IF ~PromptBuilds(email)
    THEN Thrown(AppError(<<"Failed to generate email summary">>, 500,
                         "AI_SUMMARIZATION_FAILED"))
    ELSE summarizeEmail(outcome)

extractActionItemsOf(email, outcome, now) ==
    IF ~PromptBuilds(email)
    THEN Thrown(AppError(<<"Failed to extract action items">>, 500, "AI_EXTRACTION_FAILED"))
    ELSE extractActionItems(outcome, now)

\* extractTasks, up to the await of summarizeEmail.
extractTasksStart ==
    /\ aPc = "idle"
    /\ \E email \in EmailInputs :
         /\ aReq' = [NoAReq EXCEPT !.op = "extractTasks", !.email = email]
         /\ IF ~IsObject(email)
            THEN /\ ANextError(AppError(<<"Email object is required in request body">>,
                                        400, "MISSING_EMAIL"))
                 /\ aCalls' = <<>>
            ELSE /\ aRes' = NoRes
                 /\ aPc' = "tasksSummarize"
                 /\ aCalls' = <<ACall("summarizeEmail", email)>>
         /\ aInFlight' = Len(aCalls')
    /\ ALocalsFresh
    /\ UNCHANGED gmailClient

\* await aiService.summarizeEmail(email) completes.
extractTasksSummarize ==
    /\ aPc = "tasksSummarize"
    /\ \E outcome \in SummaryOutcomes :
         LET r == summarizeEmailOf(aReq.email, outcome) IN
         IF r.ok
         THEN /\ curSummary' = r.event
              /\ aPc' = "tasksExtract"
              /\ aRes' = aRes
              /\ aCalls' = Append(aCalls, ACall("extractActionItems", aReq.email))
         ELSE /\ ANextError(r.error)
              /\ UNCHANGED <<curSummary, aCalls>>
    /\ Awaited
    /\ UNCHANGED <<gmailClient, aReq, aMaxResults, userSessionJwt, messages, aI, curEmail,
                   items, aErrors, delegatedToken, eventsToCreate, aBuiltAt, aDelegation,
                   aAgentB>>

\* await aiService.extractActionItems(email) completes; the response.
extractTasksExtract ==
    /\ aPc = "tasksExtract"
    /\ \E outcome \in ActionOutcomes, now \in Nows :
         LET r == extractActionItemsOf(aReq.email, outcome, now) IN
         IF r.ok
         THEN /\ aRes' = SuccessRes(200,
                             [summary |-> curSummary, actions |-> r.event,
                              metadata |-> [hasEmailId |-> "id" \in aReq.email.fields,
                                            processed |-> TRUE,
                                            actionCount |-> Len(r.event)]])
              /\ aPc' = "done"
         ELSE ANextError(r.error)
    /\ UNCHANGED <<gmailClient, aReq, aMaxResults, userSessionJwt, messages, aI, curEmail,
                   curSummary, items, aErrors, delegatedToken, eventsToCreate, aCalls,
                   aBuiltAt, aDelegation, aAgentB>>
    /\ Awaited

\* A route of the app that no controller serves: it answers at once.
AppRoute(op, res) ==
    /\ aPc = "idle"
    /\ aReq' = [NoAReq EXCEPT !.op = op]
    /\ aRes' = res
    /\ aPc' = "done"
    /\ aCalls' = <<>>
    /\ aInFlight' = 0
    /\ ALocalsFresh
    /\ UNCHANGED gmailClient

healthCheck == AppRoute("health", healthResponse("agent-a-email"))

notFoundHandler == AppRoute("notFound", notFoundResponse)

\* The invocation is over: its locals are gone.
AReturn ==
    /\ aPc = "done"
    /\ aPc' = "idle"
    /\ aReq' = NoAReq
    /\ aRes' = NoRes
    /\ aCalls' = <<>>
    /\ aInFlight' = 0
    /\ ALocalsFresh
    /\ UNCHANGED gmailClient

-----------------------------------------------------------------------------
(* The gateways called on their own: one operation of CalendarService or   *)
(* GmailService per step, with any argument and any behaviour of the       *)
(* provider.                                                               *)

\* A call of a gateway operation: the operation, whether its client exists,
\* the arguments (each operation reads its own), and what the provider did
\* (provider; providerNext for the second call of updateEvent; insertId is
\* the id events.insert answered with).
NoGCall ==
    [method |-> "none", client |-> FALSE,
     provider |-> NoProvider, providerNext |-> NoProvider, insertId |-> NoString,
     eventData |-> [title |-> "", description |-> "", startTime |-> NoString,
                    endTime |-> NoString, attendees |-> NoAttendees, location |-> "",
                    reminders |-> ""],
     maxResults |-> 0, eventId |-> NoString,
     updateData |-> [title |-> "", startTime |-> NoString, endTime |-> NoString],
     messageId |-> ""]

\* Every provider call of a gateway operation sits behind its test of the
\* client: `n` calls are made when the client exists, none otherwise.
ProviderCalls(client, n) == IF client THEN n ELSE 0

\* maxResults as the callers of getRecentEmails pass it.
MailMaxResults == {1, 5, 10}

\* Message ids a caller can ask for: one of the mock list, one of the
\* provider's, and one that names a member of Object.prototype.
MessageIds == {"mock_email_1", "m1", "constructor"}

GCalled(call) == gCall' = call

\* What a call did, under the name of what the operation answers with.
NoGOut == [ok |-> TRUE, error |-> PlainError(<<>>)]
GaveEvent(r) == gOut' = [ok |-> r.ok, error |-> r.error, event |-> r.event]
GaveEvents(r) == gOut' = [ok |-> r.ok, error |-> r.error, events |-> r.event]
GaveDeleted(r) == gOut' = [ok |-> r.ok, error |-> r.error, deleted |-> r.deleted]
GaveMessages(r) == gOut' = [ok |-> r.ok, error |-> r.error, messages |-> r.event]
GaveEmail(r) == gOut' = [ok |-> r.ok, error |-> r.error, email |-> r.event]

CallCreateEvent ==
    /\ \E eventData \in Drafts, outcome \in InsertOutcomes, sfx \in MockSuffixes, now \in Nows :
         /\ GCalled([NoGCall EXCEPT !.method = "createEvent", !.client = calendarClient,
                                        !.eventData = eventData,
                                        !.provider = Did(calendarClient, outcome),
                                        !.insertId = IF calendarClient THEN outcome.id
                                                     ELSE NoString])
         /\ GaveEvent(createEvent(eventData, calendarClient, outcome, sfx, now))
    /\ gProviderCalls' = ProviderCalls(calendarClient, 1)
    /\ UNCHANGED <<aVars, bVars>>

CallListUpcomingEvents ==
    /\ \E q \in QueryMaxResults, outcome \in ListOutcomes, now \in Nows :
         /\ GCalled([NoGCall EXCEPT !.method = "listUpcomingEvents",
                                        !.client = calendarClient,
                                        !.maxResults = listMaxResults(q),
                                        !.provider = Did(calendarClient, outcome)])
         /\ GaveEvents(listUpcomingEvents(listMaxResults(q), calendarClient, outcome, now))
    /\ gProviderCalls' = ProviderCalls(calendarClient, 1)
    /\ UNCHANGED <<aVars, bVars>>

CallGetEvent ==
    /\ \E eventId \in EventIds, outcome \in EventOutcomes, now \in Nows :
         /\ GCalled([NoGCall EXCEPT !.method = "getEvent", !.client = calendarClient,
                                        !.eventId = eventId,
                                        !.provider = Did(calendarClient, outcome)])
         /\ GaveEvent(getEventService(eventId, calendarClient, outcome, now))
    /\ gProviderCalls' = ProviderCalls(calendarClient, 1)
    /\ UNCHANGED <<aVars, bVars>>

\* updateEvent calls events.get, and events.update once that has answered.
CallUpdateEvent ==
    /\ \E eventId \in EventIds, updateData \in UpdateBodies,
          getOutcome \in EventOutcomes, updateOutcome \in EventOutcomes, now \in Nows :
         /\ GCalled([NoGCall EXCEPT !.method = "updateEvent", !.client = calendarClient,
                                        !.eventId = eventId, !.updateData = updateData,
                                        !.provider = Did(calendarClient, getOutcome),
                                        !.providerNext =
                                            Did(calendarClient /\ getOutcome.t = "data",
                                                updateOutcome)])
         /\ GaveEvent(updateEventService(eventId, updateData, calendarClient,
                                        getOutcome, updateOutcome, now))
         /\ gProviderCalls' =
                ProviderCalls(calendarClient, IF getOutcome.t = "data" THEN 2 ELSE 1)
    /\ UNCHANGED <<aVars, bVars>>

CallDeleteEvent ==
    /\ \E eventId \in EventIds, outcome \in EventOutcomes :
         /\ GCalled([NoGCall EXCEPT !.method = "deleteEvent", !.client = calendarClient,
                                        !.eventId = eventId,
                                        !.provider = Did(calendarClient, outcome)])
         /\ GaveDeleted(deleteEventService(eventId, calendarClient, outcome))
    /\ gProviderCalls' = ProviderCalls(calendarClient, 1)
    /\ UNCHANGED <<aVars, bVars>>

CallGetRecentEmails ==
    /\ \E max \in MailMaxResults, outcome \in ListMailOutcomes :
         /\ GCalled([NoGCall EXCEPT !.method = "getRecentEmails", !.client = gmailClient,
                                        !.maxResults = max,
                                        !.provider = Did(gmailClient, outcome)])
         /\ GaveMessages(getRecentEmails(max, gmailClient, outcome))
    /\ gProviderCalls' = ProviderCalls(gmailClient, 1)
    /\ UNCHANGED <<aVars, bVars>>

CallGetEmailContent ==
    /\ \E messageId \in MessageIds, outcome \in MailOutcomes :
         /\ GCalled([NoGCall EXCEPT !.method = "getEmailContent", !.client = gmailClient,
                                        !.messageId = messageId,
                                        !.provider = Did(gmailClient, outcome)])
         /\ GaveEmail(getEmailContent(messageId, gmailClient, outcome))
    /\ gProviderCalls' = ProviderCalls(gmailClient, 1)
    /\ UNCHANGED <<aVars, bVars>>

-----------------------------------------------------------------------------

GInit ==
    /\ gCall = NoGCall
    /\ gOut = NoGOut
    /\ gProviderCalls = 0

BInit ==
    /\ calendarClient \in BOOLEAN
    /\ bPc = "idle"
    /\ bReq = NoReq
    /\ bI = 1
    /\ createdEvents = <<>>
    /\ errors = <<>>
    /\ bCalls = <<>>
    /\ bRes = NoRes
    /\ bLast = NoLast
    /\ bPrev = NoPrev

AInit ==
    /\ gmailClient \in BOOLEAN
    /\ aPc = "idle"
    /\ aReq = NoAReq
    /\ aMaxResults = 0
    /\ userSessionJwt = NoString
    /\ messages = <<>>
    /\ aI = 1
    /\ curEmail = NoEmail
    /\ curSummary = ""
    /\ items = <<>>
    /\ aErrors = <<>>
    /\ delegatedToken = NoString
    /\ eventsToCreate = <<>>
    /\ aCalls = <<>>
    /\ aInFlight = 0
    /\ aBuiltAt = 0
    /\ aDelegation = "none"
    /\ aAgentB = "none"
    /\ aRes = NoRes

Init == BInit /\ AInit /\ GInit

\* One agent at rest, its gateway without credentials, while the other serves.
InitB == Init /\ ~gmailClient
InitA == Init /\ ~calendarClient

BNext ==
    \/ createEventsStart /\ UNCHANGED <<aVars, gVars>>
    \/ createEventsIteration /\ UNCHANGED <<aVars, gVars>>
    \/ createEventsRespond /\ UNCHANGED <<aVars, gVars>>
    \/ listEventsStart /\ UNCHANGED <<aVars, gVars>>
    \/ listEventsCall /\ UNCHANGED <<aVars, gVars>>
    \/ getEventStart /\ UNCHANGED <<aVars, gVars>>
    \/ getEventCall /\ UNCHANGED <<aVars, gVars>>
    \/ updateEventStart /\ UNCHANGED <<aVars, gVars>>
    \/ updateEventCall /\ UNCHANGED <<aVars, gVars>>
    \/ deleteEventStart /\ UNCHANGED <<aVars, gVars>>
    \/ deleteEventCall /\ UNCHANGED <<aVars, gVars>>
    \/ healthCheckB /\ UNCHANGED <<aVars, gVars>>
    \/ notFoundHandlerB /\ UNCHANGED <<aVars, gVars>>
    \/ BReturn /\ UNCHANGED <<aVars, gVars>>

ANext ==
    \/ processInboxStart /\ UNCHANGED <<bVars, gVars>>
    \/ processInboxFetch /\ UNCHANGED <<bVars, gVars>>
    \/ processInboxContent /\ UNCHANGED <<bVars, gVars>>
    \/ processInboxSummarize /\ UNCHANGED <<bVars, gVars>>
    \/ processInboxExtract /\ UNCHANGED <<bVars, gVars>>
    \/ processInboxDelegate /\ UNCHANGED <<bVars, gVars>>
    \/ processInboxAgentB /\ UNCHANGED <<bVars, gVars>>
    \/ extractTasksStart /\ UNCHANGED <<bVars, gVars>>
    \/ extractTasksSummarize /\ UNCHANGED <<bVars, gVars>>
    \/ extractTasksExtract /\ UNCHANGED <<bVars, gVars>>
    \/ healthCheck /\ UNCHANGED <<bVars, gVars>>
    \/ notFoundHandler /\ UNCHANGED <<bVars, gVars>>
    \/ AReturn /\ UNCHANGED <<bVars, gVars>>

GNext ==
    \/ CallCreateEvent
    \/ CallListUpcomingEvents
    \/ CallGetEvent
    \/ CallUpdateEvent
    \/ CallDeleteEvent
    \/ CallGetRecentEmails
    \/ CallGetEmailContent

\* The steps of processInbox that a completed downstream call resumes.
processInboxResumes ==
    \/ processInboxFetch
    \/ processInboxContent
    \/ processInboxSummarize
    \/ processInboxExtract
    \/ processInboxDelegate
    \/ processInboxAgentB

\* Agent B serving requests, Agent A at rest.
SpecB == InitB /\ [][BNext]_vars

\* Agent A serving requests, Agent B at rest.
SpecA == InitA /\ [][ANext]_vars

\* Agent A when every downstream call eventually returns or fails: the event
\* loop then resumes the handler that awaits it.
SpecAFair ==
    /\ InitA
    /\ [][ANext]_vars
    /\ WF_vars(processInboxResumes /\ UNCHANGED <<bVars, gVars>>)

\* Both agents at rest, with or without credentials: the gateways alone.
SpecG == Init /\ [][GNext]_vars

-----------------------------------------------------------------------------
(* Properties of Agent B's handlers (SpecB) *)

\* The scope a calendar operation requires.
RequiredScope(op) ==
    IF op \in {"listEvents", "getEvent"} THEN "calendar.read" ELSE "calendar.write"

\* A request that passed the checks made on its shape: the body of
\* create-events validated, the event id present where the route has one.
WellFormed(req) ==
    /\ req.op \notin {"none", "health", "notFound"}
    /\ req.bodyValid
    /\ req.op \in {"getEvent", "updateEvent", "deleteEvent"} => Truthy(req.eventId)

InsufficientScope(res) == res.status = 403 /\ res.code = "INSUFFICIENT_SCOPE"

CreateEventsDone == bPc = "done" /\ bReq.op = "createEvents"

\* A create-events request of at least one draft that went through the loop
\* and was answered with the batch result.
BatchAnswered == CreateEventsDone /\ bRes.success /\ Len(bReq.events) > 0

\* C1: every calendar operation whose caller lacks the exact scope it requires
\* (calendar.write for create, update, delete; calendar.read for list, get)
\* is answered 403 INSUFFICIENT_SCOPE, here for well-formed requests.
C1_MissingScopeDenied ==
    (bPc = "done" /\ WellFormed(bReq) /\ ~HasScope(bReq.user, RequiredScope(bReq.op)))
        => InsufficientScope(bRes)

\* C2: a handler execution that ends in 403 INSUFFICIENT_SCOPE has invoked no
\* calendarService method.
C2_DeniedBeforeService ==
    InsufficientScope(bRes) => bCalls = <<>>

C2_Witness ==
    /\ bPc = "done"
    /\ bReq.op = "deleteEvent"
    /\ Truthy(bReq.eventId)
    /\ bReq.user.defined /\ bReq.user.scopes = {"calendar.read", "calendar.*"}
    /\ InsufficientScope(bRes)

\* C3: a create-events request with a valid body, of any number of drafts,
\* whose caller lacks calendar.write is never answered with a 2xx status.
C3_NoWriteScopeNoSuccess ==
    (CreateEventsDone /\ bReq.bodyValid /\ ~HasScope(bReq.user, "calendar.write"))
        => bRes.status \notin 200..299

\* C4: a batch of N drafts of which k are created, 0 < k < N, is answered
\* with status 207 and N - k error entries.
C4_PartialBatchIs207 ==
    (BatchAnswered /\ 0 < Len(createdEvents) /\ Len(createdEvents) < Len(bReq.events))
        => /\ bRes.status = 207
           /\ bRes.data.errors.defined
           /\ Len(bRes.data.errors.list) = Len(bReq.events) - Len(createdEvents)

\* C5: a batch of N >= 1 drafts that are all created is answered with status
\* 200, totalCreated = totalRequested = N, N created events and no errors field.
C5_FullBatchIs200 ==
    (BatchAnswered /\ Len(createdEvents) = Len(bReq.events))
        => /\ bRes.status = 200
           /\ bRes.data.totalRequested = Len(bReq.events)
           /\ bRes.data.totalCreated = Len(bReq.events)
           /\ Len(bRes.data.created) = Len(bReq.events)
           /\ ~bRes.data.errors.defined

C5_Witness ==
    /\ BatchAnswered
    /\ calendarClient
    /\ Len(bReq.events) = MaxDrafts
    /\ Len(createdEvents) = MaxDrafts
    /\ bRes.status = 200

\* C6: a create-events request whose events list is empty is answered with
\* status 200 and data.created = [], and createEvent is never invoked.
C6_EmptyBatch ==
    (CreateEventsDone /\ bReq.bodyValid /\ Len(bReq.events) = 0)
        => /\ bRes.status = 200
           /\ bRes.success
           /\ bRes.data.created = <<>>
           /\ bCalls = <<>>

C6_Witness ==
    /\ CreateEventsDone
    /\ bReq.bodyValid
    /\ bReq.events = <<>>
    /\ ~HasScope(bReq.user, "calendar.write")
    /\ bRes.success

IsReturned(call) == call.returned
IsThrown(call) == ~call.returned

\* C7: the drafts of a batch are attempted once each, in the order of the
\* input; a draft that fails does not keep a later one from being attempted;
\* in the answer created and errors together have totalRequested entries,
\* totalCreated is the length of created, and created (like errors) follows
\* the input order of the drafts it came from.
C7_EachDraftOnceInOrder ==
    bReq.op = "createEvents" =>
        /\ \A k \in 1..Len(bCalls) :
              bCalls[k].method = "createEvent" /\ bCalls[k].index = k
        /\ Len(bCalls) <= Len(bReq.events)
        /\ Len(createdEvents) + Len(errors) = Len(bCalls)
        /\ BatchAnswered =>
             LET made == SelectSeq(bCalls, IsReturned)
                 failed == SelectSeq(bCalls, IsThrown)
                 data == bRes.data
             IN  /\ Len(bCalls) = Len(bReq.events)
                 /\ data.totalRequested = Len(bReq.events)
                 /\ Len(data.created) + Len(data.errors.list) = data.totalRequested
                 /\ data.totalCreated = Len(data.created)
                 /\ Len(data.created) = Len(made)
                 /\ \A j \in 1..Len(made) : \E now \in Nows :
                       LET draft == enhanceEventData(bReq.events[made[j].index], now)
                       IN  /\ data.created[j].title = draft.title
                           /\ data.created[j].startTime = draft.startTime
                 /\ \A j \in 1..Len(failed) :
                       data.errors.list[j].event = bReq.events[failed[j].index]

C7_Witness ==
    /\ BatchAnswered
    /\ Len(bReq.events) = MaxDrafts
    /\ bReq.events[1] # bReq.events[MaxDrafts]
    /\ ~bCalls[1].returned
    /\ bCalls[MaxDrafts].returned
    /\ Len(bRes.data.created) > 0

\* C8: the same batch of N drafts submitted twice, no draft failing either
\* time, makes 2N createEvent calls and 2N created events: the second
\* submission is not recognised as a repeat.
C8_NoDeduplication ==
    (BatchAnswered /\ bPrev.repeat /\ ~bRes.data.errors.defined)
        => /\ bPrev.calls = Len(bReq.events)
           /\ Len(bCalls) = Len(bReq.events)
           /\ bPrev.calls + Len(bCalls) = 2 * Len(bReq.events)
           /\ bPrev.created + Len(bRes.data.created) = 2 * Len(bReq.events)

C8_Witness ==
    /\ BatchAnswered
    /\ bPrev.repeat
    /\ Len(bReq.events) = MaxDrafts
    /\ ~bRes.data.errors.defined
    /\ Len(bRes.data.created) = MaxDrafts

-----------------------------------------------------------------------------
(* Properties of Agent A's processInbox (SpecA) *)

DelegationFailed(res) == res.status = 403 /\ res.code = "DELEGATION_FAILED"

AgentBCalled == \E k \in 1..Len(aCalls) : aCalls[k].method = "callAgentBCreateEvents"

\* C9: when requestDelegatedToken returns null or an empty token, processInbox
\* responds 403 DELEGATION_FAILED, sends no success envelope and never invokes
\* callAgentBCreateEvents.
C9_NoTokenNoCalendarCall ==
    aDelegation = "notoken" =>
        /\ aPc = "done"
        /\ DelegationFailed(aRes)
        /\ ~aRes.success
        /\ ~AgentBCalled

C9_Witness ==
    /\ aDelegation = "notoken"
    /\ aPc = "done"
    /\ \E k \in 1..Len(items) : Len(items[k].actions) > 0
    /\ DelegationFailed(aRes)

\* C10: however the delegated-token request fails, by returning null or by
\* throwing, processInbox responds 403 DELEGATION_FAILED.
C10_AnyFailureIsDelegationFailed ==
    (aPc = "done" /\ aDelegation \in {"notoken", "throw"}) => DelegationFailed(aRes)

MethodIs(k, method) == aCalls[k].method = method

TokenRequests == {k \in 1..Len(aCalls) : MethodIs(k, "requestDelegatedToken")}

AgentBCalls == {k \in 1..Len(aCalls) : MethodIs(k, "callAgentBCreateEvents")}

\* C11: a process-emails request asks for a delegated token at most once,
\* after the loop over the messages has finished and before any call to
\* Agent B; a failed token request is not repeated; a call to Agent B uses a
\* token this very request obtained, and none is kept once the request is over.
C11_OneTokenRequest ==
    /\ Cardinality(TokenRequests) <= 1
    /\ \A k \in TokenRequests :
          /\ aI = Len(messages) + 1
          /\ Cardinality({j \in 1..k : MethodIs(j, "getEmailContent")}) = Len(messages)
          /\ \A j \in 1..(k - 1) : ~MethodIs(j, "callAgentBCreateEvents")
          /\ \A j \in (k + 1)..Len(aCalls) : MethodIs(j, "callAgentBCreateEvents")
    /\ AgentBCalls # {} => TokenRequests # {} /\ aDelegation = "token"
    /\ aDelegation \in {"notoken", "throw"} => aPc = "done"
    /\ Truthy(delegatedToken) => aDelegation = "token"
    /\ aPc = "idle" => delegatedToken = NoString

C11_Witness ==
    /\ aPc = "done"
    /\ aRes.success
    /\ Len(messages) = MaxMessages
    /\ TokenRequests # {}
    /\ AgentBCalls # {}

\* C12: every delegated-token request of processInbox names the audience
\* agent-b-calendar and the scopes [calendar.write], and carries the caller's
\* session token; every create-events call to Agent B carries the token that
\* request returned, not the session token.
C12_DelegationArguments ==
    /\ \A k \in TokenRequests :
          /\ aCalls[k].arg.audience = "agent-b-calendar"
          /\ aCalls[k].arg.scopes = <<"calendar.write">>
          /\ aCalls[k].arg.userSessionJwt = SessionJwtOf(aReq.authorization)
          /\ Truthy(aCalls[k].arg.userSessionJwt)
    /\ \A k \in AgentBCalls :
          /\ aDelegation = "token"
          /\ aCalls[k].arg = delegatedToken
          /\ Truthy(aCalls[k].arg)
          /\ aCalls[k].arg # userSessionJwt

C12_Witness ==
    /\ aPc = "agentB"
    /\ TokenRequests # {}
    /\ AgentBCalls # {}
    /\ Len(eventsToCreate) > 1

MessageMethods == {"getEmailContent", "summarizeEmail", "extractActionItems"}

\* C13: the messages of a request are handled one after another in list
\* order: for each message getEmailContent, summarizeEmail and
\* extractActionItems are called in that order, each after the one before it
\* has completed, and no call for a later message starts while a call for an
\* earlier one is pending; the request never has two outbound calls in flight.
C13_OneMessageAtATime ==
    aReq.op = "processInbox" =>
    /\ aInFlight <= 1
    /\ aInFlight = 1 <=> aPc \notin {"idle", "done"}
    /\ \A k \in 1..Len(aCalls) :
          /\ MethodIs(k, "getEmailContent") =>
                LET n == Cardinality({j \in 1..k : MethodIs(j, "getEmailContent")})
                IN  /\ n <= Len(messages)
                    /\ aCalls[k].arg = messages[n]
                    /\ k > 1
                    /\ aCalls[k - 1].method \in MessageMethods \cup {"getRecentEmails"}
          /\ MethodIs(k, "summarizeEmail") =>
                /\ k > 1
                /\ MethodIs(k - 1, "getEmailContent")
                /\ aCalls[k - 1].arg = aCalls[k].arg
          /\ MethodIs(k, "extractActionItems") =>
                /\ k > 1
                /\ MethodIs(k - 1, "summarizeEmail")
                /\ aCalls[k - 1].arg = aCalls[k].arg

C13_Witness ==
    /\ aReq.op = "processInbox"
    /\ aPc = "content"
    /\ aI = MaxMessages
    /\ Len(items) = aI - 1
    /\ aInFlight = 1
    /\ Cardinality({k \in 1..Len(aCalls) : MethodIs(k, "extractActionItems")}) = aI - 1

IsMessageError(entry) == entry.emailId # "calendar-creation"

\* The message ids among `ids` that are the emailId of exactly `n` entries of errs.
ErrorsOf(errs, id) == Cardinality({k \in 1..Len(errs) : errs[k].emailId = id})

ItemsOf(its, id) == Cardinality({k \in 1..Len(its) : its[k].email.id = id})

\* C14: a failure of getEmailContent, summarizeEmail or extractActionItems
\* for a message is recorded as one errors entry with that message's id and
\* the loop goes on: every listed message is attempted, each ends up either
\* processed or in errors, and a 200 response has processed plus the number of
\* errors entries that carry a message id equal to the number of messages
\* listed, with as many summaries as processed.
C14_FailuresAreCollected ==
    aReq.op = "processInbox" =>
    /\ Len(items) + Len(SelectSeq(aErrors, IsMessageError)) = aI - 1
    /\ \A n \in 1..(aI - 1) :
          ItemsOf(items, messages[n]) + ErrorsOf(aErrors, messages[n]) = 1
    /\ (aPc = "done" /\ aRes.success) =>
          /\ aI = Len(messages) + 1
          /\ Cardinality({k \in 1..Len(aCalls) : MethodIs(k, "getEmailContent")})
                = Len(messages)
          /\ aRes.status = 200
          /\ aRes.data.processed + Len(SelectSeq(aRes.data.errors, IsMessageError))
                = Len(messages)
          /\ Len(aRes.data.summaries) = aRes.data.processed
          /\ \A n \in 1..Len(messages) :
                Cardinality({k \in 1..Len(aRes.data.summaries) :
                                aRes.data.summaries[k].id = messages[n]})
                    + ErrorsOf(aRes.data.errors, messages[n]) = 1

C14_Witness ==
    /\ aReq.op = "processInbox"
    /\ aPc = "done"
    /\ aRes.success
    /\ Len(messages) = MaxMessages
    /\ ErrorsOf(aRes.data.errors, messages[1]) = 1
    /\ aRes.data.processed = MaxMessages - 1
    /\ aRes.data.summaries[aRes.data.processed].id = messages[MaxMessages]

\* The <<item, action>> positions of `its` in item order then action order,
\* from item k on.
RECURSIVE ActionPositions(_, _)
ActionPositions(its, k) ==
    IF k > Len(its) THEN <<>>
    ELSE [j \in 1..Len(its[k].actions) |-> <<k, j>>] \o ActionPositions(its, k + 1)

\* C15: processInbox builds one draft per action item of the messages it
\* processed, in message order then action order: the drafts sent to Agent B
\* are as many as the action items of those messages together, and a message
\* that failed (which is in errors, not in items) contributes none.
C15_OneDraftPerAction ==
    IF aDelegation = "token"
    THEN LET positions == ActionPositions(items, 1) IN
         /\ Len(eventsToCreate) = Len(positions)
         /\ \A n \in 1..Len(positions) :
               LET item == items[positions[n][1]]
                   action == item.actions[positions[n][2]]
               IN  /\ eventsToCreate[n].title = action.title
                   /\ eventsToCreate[n].description
                         = <<item.summary, "Original Email: ", item.email.subject>>
         /\ \A k \in 1..Len(items) : ErrorsOf(aErrors, items[k].email.id) = 0
         /\ AgentBCalls # {} <=> Len(eventsToCreate) > 0
    ELSE eventsToCreate = <<>>

C15_Witness ==
    /\ aPc = "agentB"
    /\ Len(messages) = MaxMessages
    /\ Len(items) = MaxMessages - 1
    /\ Len(items[1].actions) = 2
    /\ Len(eventsToCreate) = 2
    /\ eventsToCreate[1].title # eventsToCreate[2].title

\* The drafts are built: eventsToCreate holds one per action position.
DraftsBuilt == aDelegation = "token"

\* C16: the startTime of every draft processInbox builds is the action's
\* suggested date when there is one and it lies in the future, else the
\* current time plus 24 hours; it is never before the moment the draft is built.
C16_StartTimeNotInThePast ==
    DraftsBuilt =>
        LET positions == ActionPositions(items, 1) IN
        \A n \in 1..Len(eventsToCreate) :
            LET action == items[positions[n][1]].actions[positions[n][2]]
                start == eventsToCreate[n].startTime
            IN  /\ start = IF Truthy(action.suggestedDate) /\ action.suggestedDate[2] > aBuiltAt
                           THEN action.suggestedDate
                           ELSE Iso(aBuiltAt + 24 * OneHour)
                /\ start[2] >= aBuiltAt

\* C17: the endTime of every draft processInbox builds is its startTime plus
\* one hour, for a start taken from the suggested date and for the default one.
C17_EndIsStartPlusOneHour ==
    DraftsBuilt =>
        \A n \in 1..Len(eventsToCreate) :
            eventsToCreate[n].endTime[2] = eventsToCreate[n].startTime[2] + OneHour

\* The body of a process-emails request in flight gives a maxResults that is
\* not an integer in 1..50.
InvalidMaxResults ==
    /\ aReq.op = "processInbox"
    /\ aReq.body.given
    /\ ~aReq.body.integer \/ aReq.body.n \notin 1..50

\* C18: a process-emails request whose maxResults is not an integer in 1..50
\* is rejected with 400 VALIDATION_ERROR before any call to the mail gateway,
\* the summarization engine, the credential provider or Agent B; a request
\* without maxResults is served with the value 5.
C18_InvalidBodyRejectedFirst ==
    /\ InvalidMaxResults =>
          /\ aPc = "done"
          /\ aRes.status = 400
          /\ aRes.code = "VALIDATION_ERROR"
          /\ ~aRes.success
          /\ aCalls = <<>>
          /\ aInFlight = 0
    /\ (aReq.op = "processInbox" /\ ~aReq.body.given) =>
          /\ aMaxResults = 5
          /\ aRes.code # "VALIDATION_ERROR"
          /\ \A k \in 1..Len(aCalls) :
                MethodIs(k, "getRecentEmails") => aCalls[k].arg = 5

C18_Witness ==
    /\ InvalidMaxResults
    /\ aReq.body.integer
    /\ aReq.body.n > 50
    /\ Truthy(SessionJwtOf(aReq.authorization))
    /\ aRes.status = 400

-----------------------------------------------------------------------------
(* Properties of Agent A's extractTasks (SpecA) *)

\* C19: an extract-tasks request whose email is malformed (absent, not an
\* object, or without one of id, subject, from, body, threadId, receivedAt)
\* is rejected with status 400 before summarizeEmail or extractActionItems
\* is called.
C19_MalformedEmailRejectedFirst ==
    (aReq.op = "extractTasks" /\ validateExtractTasksRequest(aReq).error) =>
        /\ aPc = "done"
        /\ aRes.status = 400
        /\ aCalls = <<>>

-----------------------------------------------------------------------------
(* Properties of the gateways (SpecG) *)

MockDescription == "This is a mock calendar event for demonstration purposes."

\* The result of a gateway operation is the mock the operation stands for.
IsMockResult(call, out) ==
    CASE call.method = "createEvent" ->
            /\ Len(out.event.id) > 0 /\ out.event.id[1] = "mock_"
            /\ out.event.title = call.eventData.title
      [] call.method = "listUpcomingEvents" ->
            \A k \in 1..Len(out.events) : out.events[k].id = <<"mock_event_", k>>
      [] call.method = "getEvent" ->
            out.event.id = call.eventId /\ out.event.description = MockDescription
      [] call.method = "updateEvent" ->
            out.event.id = call.eventId /\ out.event.description = MockDescription
      [] call.method = "deleteEvent" -> out.deleted
      [] call.method = "getRecentEmails" ->
            \A k \in 1..Len(out.messages) : out.messages[k] = MockEmailIds[k]
      [] call.method = "getEmailContent" ->
            out.email.id = call.messageId /\ TruthyText(out.email.subject)

\* C20: without provider credentials every gateway operation returns its
\* mock (mock events, true for deleteEvent, mock messages), for every input,
\* never raises, and makes no call of the provider.
C20_NoCredentialsGivesMocks ==
    (gCall.method # "none" /\ ~gCall.client) =>
        /\ gOut.ok
        /\ gProviderCalls = 0
        /\ IsMockResult(gCall, gOut)

\* The provider call of a gateway operation was made and failed.
ProviderFailed(call) == call.client /\ call.provider.t \in {"error", "nonerror"}

\* The typed errors createEvent knows, each with the fragment that selects it.
TypedCreateErrors ==
    { [fragment |-> "invalid_grant", status |-> 401, code |-> "CALENDAR_AUTH_EXPIRED"],
      [fragment |-> "insufficient permissions", status |-> 403,
       code |-> "CALENDAR_PERMISSIONS_ERROR"],
      [fragment |-> "Invalid value", status |-> 400, code |-> "INVALID_EVENT_DATA"] }

\* The event is the mock of the draft: a mock id, confirmed, the draft's
\* title and times.
IsMockOf(event, eventData) ==
    /\ Len(event.id) > 0 /\ event.id[1] = "mock_"
    /\ event.status = "confirmed"
    /\ event.title = eventData.title
    /\ event.startTime = eventData.startTime
    /\ event.endTime = eventData.endTime

\* C21: createEvent with a client and a failing provider call either raises
\* the typed error of a fragment its message contains (and returns nothing),
\* or, when the message contains none of the fragments, returns the mock of
\* the draft.
C21_CreateEventFailureOutcomes ==
    (gCall.method = "createEvent" /\ ProviderFailed(gCall)) =>
        LET matches == {e \in TypedCreateErrors :
                            Includes(gCall.provider.message, e.fragment)}
        IN  IF matches # {}
            THEN /\ ~gOut.ok
                 /\ gOut.event = NoEvent
                 /\ \E e \in matches :
                        gOut.error.status = e.status /\ gOut.error.code = e.code
            ELSE /\ gOut.ok
                 /\ IsMockOf(gOut.event, gCall.eventData)

C21_Witness ==
    /\ gCall.method = "createEvent" /\ ProviderFailed(gCall)
    /\ Includes(gCall.provider.message, "ECONNRESET")
    /\ gCall.eventData.title = "Standup"
    /\ gOut.ok /\ IsMockOf(gOut.event, gCall.eventData)

-----------------------------------------------------------------------------
(* Properties of Agent B's handlers on provider failures (SpecB) *)

\* The request in flight has been answered after one call of the service,
\* made with a client.
AnsweredAfter(op) ==
    bPc = "done" /\ bReq.op = op /\ Len(bCalls) = 1 /\ calendarClient

\* The provider call failed with an error the operation does not recognise,
\* or with a 'Not Found'.
Unrecognized(call) ==
    call.provider.t \in {"error", "nonerror"} /\ ~Includes(call.provider.message, "Not Found")
NotFound(call) ==
    call.provider.t = "error" /\ Includes(call.provider.message, "Not Found")

\* C22: on a provider error that no fragment matches, listUpcomingEvents and
\* getEvent return mock data and do not raise, while deleteEvent raises and
\* the response is 500 CALENDAR_DELETE_FAILED, never a success; a provider
\* 'Not Found' on getEvent or deleteEvent is answered with 404.
C22_UnmatchedProviderErrors ==
    /\ (AnsweredAfter("listEvents") /\ Unrecognized(bCalls[1])) =>
            /\ bCalls[1].returned
            /\ bRes.status = 200 /\ bRes.success
            /\ \A k \in 1..Len(bRes.data.events) :
                    bRes.data.events[k].id = <<"mock_event_", k>>
    /\ (AnsweredAfter("getEvent") /\ Unrecognized(bCalls[1])) =>
            /\ bCalls[1].returned
            /\ bRes.status = 200 /\ bRes.success
            /\ bRes.data.event.id = bReq.eventId
            /\ bRes.data.event.description = MockDescription
    /\ (AnsweredAfter("deleteEvent") /\ Unrecognized(bCalls[1])) =>
            /\ ~bCalls[1].returned
            /\ ~bRes.success
            /\ bRes.status = 500 /\ bRes.code = "CALENDAR_DELETE_FAILED"
    /\ ((AnsweredAfter("getEvent") \/ AnsweredAfter("deleteEvent")) /\ NotFound(bCalls[1])) =>
            /\ ~bRes.success
            /\ bRes.status = 404

C22_Witness ==
    /\ AnsweredAfter("deleteEvent")
    /\ Includes(bCalls[1].provider.message, "ECONNRESET")
    /\ bRes.status = 500

-----------------------------------------------------------------------------
(* Properties of the responses *)

\* The envelope { success, data?, error?: {message, code}, timestamp }.
Envelope(res) ==
    /\ {"success", "timestamp"} \subseteq res.keys
    /\ res.success => "data" \in res.keys
    /\ ~res.success => "error" \in res.keys /\ {"message", "code"} \subseteq res.errorKeys

\* C23: every response an agent sends (a handler's, the error handler's,
\* the health endpoint's, the fallback route's) follows the envelope.
C23_ResponsesFollowEnvelope ==
    /\ aRes.status # 0 => Envelope(aRes)
    /\ bRes.status # 0 => Envelope(bRes)

-----------------------------------------------------------------------------
(* The scope check as a function of the request (SpecB) *)

CalendarOps == {"createEvents", "listEvents", "getEvent", "updateEvent", "deleteEvent"}

\* What the head of the handler does with a request: "denied" by the scope
\* check, "allowed" when the request goes on to be served, "none" when it is
\* rejected for its shape before anything else.
Decision(req) ==
    LET way == IF req.op = "createEvents"
               THEN createEventsEntry(req.bodyValid, req.events, req.user)
               ELSE GuardedEntry(req.op # "listEvents", req.eventId, req.user,
                                 RequiredScope(req.op))
    IN  IF way = "denied" THEN "denied"
        ELSE IF way \in {"invalid", "noid"} THEN "none"
        ELSE "allowed"

\* The requests that differ from `req` in their X-Agent header and in their
\* body or event id only: same operation, same attached scopes.
SameScopeRequests(req) ==
    IF req.op = "createEvents"
    THEN {[req EXCEPT !.xAgent = x, !.events = e] : x \in XAgents, e \in EventLists}
    ELSE {[req EXCEPT !.xAgent = x] : x \in XAgents}

\* C24: the allow/deny decision for a calendar operation depends on the
\* operation and the attached scope set only: the request being served is
\* denied exactly when the head of its handler denies it, whatever was served
\* before, and every request for the same operation with the same scopes,
\* whatever its X-Agent header and body, gets the same decision.
C24_DecisionDependsOnScopesOnly ==
    (bPc = "done" /\ bReq.op \in CalendarOps /\ Decision(bReq) # "none") =>
        /\ InsufficientScope(bRes) <=> Decision(bReq) = "denied"
        /\ \A other \in SameScopeRequests(bReq) :
               Decision(other) = Decision(bReq)

-----------------------------------------------------------------------------
(* Properties of processInbox: the bearer value, the outcome (SpecA) *)

\* A process-emails request without a bearer value: no Authorization header,
\* or nothing left of it once "Bearer " is removed.
NoBearer ==
    /\ aReq.op = "processInbox"
    /\ ~Truthy(SessionJwtOf(aReq.authorization))

RejectedForToken ==
    /\ aPc = "done"
    /\ aRes.status = 401
    /\ aRes.code = "MISSING_TOKEN"
    /\ ~aRes.success
    /\ aCalls = <<>>
    /\ aInFlight = 0

NoEmptyTokenRequest ==
    \A k \in 1..Len(aCalls) :
        aCalls[k].method = "requestDelegatedToken" => Truthy(aCalls[k].arg.userSessionJwt)

RECURSIVE CountCalls(_, _)
CountCalls(calls, method) ==
    IF calls = <<>> THEN 0
    ELSE (IF Head(calls).method = method THEN 1 ELSE 0) + CountCalls(Tail(calls), method)

\* processInbox is between its first await and its outcome.
ProcessInboxRunning ==
    aPc \in {"fetch", "content", "summarize", "extract", "delegate", "agentB"}

ProcessInboxDone == aReq.op = "processInbox" /\ aPc = "done"

\* The loop is over: every fetched message was asked for, and each one left
\* either an item or an errors entry.
LoopRanOverAll ==
    /\ aI = Len(messages) + 1
    /\ CountCalls(aCalls, "getEmailContent") = Len(messages)
    /\ Len(items) + Len(SelectSeq(aErrors, LAMBDA e : e.emailId # "calendar-creation"))
           = Len(messages)

\* C26: when every downstream call eventually returns or fails, a
\* process-emails request that has started eventually completes; it has no
\* outcome while it runs and exactly one when it is done (the success
\* response or the error handler's response), which stays as it is until the
\* request is over; and whenever the handler has got past the loop, the loop
\* has run over all the fetched messages.
C26_RequestCompletesWithOneOutcome ==
    /\ ProcessInboxRunning ~> ProcessInboxDone
    /\ [](ProcessInboxRunning => aRes = NoRes)
    /\ [](ProcessInboxDone => aRes.status # 0 /\ (aRes.success <=> aRes.code = ""))
    /\ [][ProcessInboxDone /\ aPc' = "done" => aRes' = aRes]_vars
    /\ []((aReq.op = "processInbox" /\ aDelegation # "none") \/ aPc \in {"delegate", "agentB"}
             => LoopRanOverAll)

C26_Witness ==
    /\ ProcessInboxDone
    /\ Len(messages) = MaxMessages
    /\ Len(items) = 1
    /\ Len(aErrors) = 1
    /\ aRes.success

-----------------------------------------------------------------------------
(* Properties of createEvents on typed errors of createEvent (SpecB) *)

\* The message of each typed error of createEvent.
TypedCreateMessage(code) ==
    CASE code = "CALENDAR_AUTH_EXPIRED" ->
             <<"Calendar authentication expired, please re-authenticate">>
      [] code = "CALENDAR_PERMISSIONS_ERROR" ->
             <<"Insufficient permissions to create calendar events">>
      [] code = "INVALID_EVENT_DATA" -> <<"Invalid event data provided">>

\* C27: in create-events a typed error of calendarService.createEvent for a
\* draft (CALENDAR_AUTH_EXPIRED, CALENDAR_PERMISSIONS_ERROR,
\* INVALID_EVENT_DATA) is recorded as that draft's errors entry and nowhere
\* else, and never becomes the status of the response; when each of the
\* N >= 1 drafts fails, the response is 207 with success true, created empty,
\* totalCreated 0 and N errors entries.
C27_TypedErrorsStayInErrors ==
    (bReq.op = "createEvents" /\ bCalls # <<>>) =>
        LET failed == SelectSeq(bCalls, IsThrown) IN
        /\ Len(errors) = Len(failed)
        /\ \A j \in 1..Len(failed) :
               /\ errors[j].event = bReq.events[failed[j].index]
               /\ \E e \in TypedCreateErrors :
                      /\ Includes(failed[j].provider.message, e.fragment)
                      /\ errors[j].error = TypedCreateMessage(e.code)
        /\ bRes.code \notin {e.code : e \in TypedCreateErrors}
        /\ bRes.status \in {0, 200, 207}
        /\ bPc = "done" => bRes.success
        /\ (bPc = "done" /\ Len(failed) = Len(bReq.events)) =>
               /\ bRes.status = 207
               /\ bRes.data.created = <<>>
               /\ bRes.data.totalCreated = 0
               /\ bRes.data.errors.defined
               /\ Len(bRes.data.errors.list) = Len(bReq.events)

C27_Witness ==
    /\ CreateEventsDone
    /\ Len(bReq.events) = MaxDrafts
    /\ Len(bCalls) = MaxDrafts
    /\ \A k \in 1..MaxDrafts : ~bCalls[k].returned
    /\ Includes(bCalls[1].provider.message, "invalid_grant")
    /\ Includes(bCalls[MaxDrafts].provider.message, "insufficient permissions")
    /\ bRes.status = 207

-----------------------------------------------------------------------------
(* Properties of createEvent on an insert without an id (SpecG) *)

\* The provider's insert call succeeded and its response carries no event id.
InsertedWithoutId(call) ==
    /\ call.method = "createEvent"
    /\ call.client
    /\ call.provider.t = "data"
    /\ ~Truthy(call.insertId)

\* C28: createEvent never fails with CALENDAR_CREATE_FAILED: when the insert
\* call succeeds without an event id, the error raised for it is caught in
\* the method, which returns the mock event of the draft (id "mock_...").
C28_NoIdGivesMock ==
    gCall.method = "createEvent" =>
        /\ gOut.error.code # "CALENDAR_CREATE_FAILED"
        /\ InsertedWithoutId(gCall) =>
               /\ gOut.ok
               /\ IsMockOf(gOut.event, gCall.eventData)

C28_Witness ==
    /\ InsertedWithoutId(gCall)
    /\ gProviderCalls = 1
    /\ gOut.ok
    /\ gOut.event.id[1] = "mock_"

-----------------------------------------------------------------------------
(* Properties of processInbox after the loop (SpecA) *)

\* processInbox has left the loop over the messages.
PastLoop ==
    /\ aReq.op = "processInbox"
    /\ aPc \in {"delegate", "agentB"} \/ aDelegation # "none"

\* No processed message has an action item: there is no draft to send.
NoActionItems == \A k \in 1..Len(items) : items[k].actions = <<>>

\* C29: processInbox requests the delegated token whether or not there is a
\* draft: without any action item the token is requested all the same, a
\* failed delegation then still fails the request with 403, and with a token
\* callAgentBCreateEvents is not called and eventsCreated is empty;
\* callAgentBCreateEvents is called at most once per request, and only with
\* a draft list that is not empty.
C29_TokenRequestedWithoutDrafts ==
    /\ PastLoop => Cardinality(TokenRequests) = 1
    /\ (ProcessInboxDone /\ NoActionItems /\ aDelegation \in {"notoken", "throw"})
          => aRes.status = 403 /\ ~aRes.success
    /\ (ProcessInboxDone /\ NoActionItems /\ aDelegation = "token")
          => /\ AgentBCalls = {}
             /\ aRes.success
             /\ aRes.data.eventsCreated = <<>>
    /\ Cardinality(AgentBCalls) <= 1
    /\ AgentBCalls # {} => Len(eventsToCreate) > 0

\* The Agent B call of the request failed.
AgentBCallFailed == ProcessInboxDone /\ aAgentB = "throw"

\* C30: once the token is obtained, a failure of the Agent B call does not
\* fail the request: the response is 200 with success true, eventsCreated is
\* empty, the summaries of all the processed messages are returned, and
\* errors ends with exactly one entry whose emailId is "calendar-creation",
\* after the entries of the messages that failed.
C30_AgentBFailureIsRecorded ==
    AgentBCallFailed =>
        LET data == aRes.data
            n == Len(data.errors)
        IN  /\ aDelegation = "token"
            /\ aRes.status = 200
            /\ aRes.success
            /\ data.eventsCreated = <<>>
            /\ data.processed = Len(items)
            /\ Len(data.summaries) = Len(items)
            /\ \A k \in 1..Len(items) :
                   /\ data.summaries[k].id = items[k].email.id
                   /\ data.summaries[k].summary = items[k].summary
                   /\ data.summaries[k].actionItems = items[k].actions
            /\ n >= 1
            /\ data.errors[n].emailId = "calendar-creation"
            /\ \A k \in 1..(n - 1) :
                   /\ data.errors[k].emailId # "calendar-creation"
                   /\ \E j \in 1..Len(messages) : data.errors[k].emailId = messages[j]
            /\ Len(items) + (n - 1) = Len(messages)

C30_Witness ==
    /\ AgentBCallFailed
    /\ Len(messages) = MaxMessages
    /\ Len(items) = 1
    /\ Len(aRes.data.errors) = 2
    /\ aRes.data.errors[1].emailId = messages[1]
    /\ aRes.status = 200

====
